---- MODULE Spec2Model ----
(***************************************************************************)
(* Verification model of the ondevice-ai runtime plane:                    *)
(*   - core/supervisor.py      (Supervisor: restart budget, stop, health,  *)
(*                              state file, hooks)                         *)
(*   - core/daemon_manager.py  (the reader of the state file)              *)
(*   - core/runtime_pool.py    (RuntimePool: scale, heartbeat, restart)    *)
(*   - core/runtime_gateway.py (RuntimeGateway: endpoint registry)         *)
(*   - core/auth.py            (AuthManager / TokenStore)                  *)
(*   - core/gateway_server.py  (GatewayServer: HTTP, WebSocket and IPC)    *)
(*   - core/sandbox.py         (SandboxHarness.execute)                    *)
(*   - automation_daemon.py    (start_daemon, the pool monitor, stop)      *)
(* Each subsystem has its own specifications (SpecSup, SpecHealth,         *)
(* SpecRun, SpecScale, SpecPool, SpecPoolCalls, SpecServer, SpecShutdown,  *)
(* SpecRegistry, SpecAuth, SpecBoot, SpecRotate, SpecRestart,              *)
(* SpecValidate, SpecHttp, SpecConn, SpecSandbox, SpecSnapshot); the other *)
(* subsystems' variables stay at their initial values. SpecReads runs the  *)
(* read operations of the registry and of the token map.                   *)
(***************************************************************************)
EXTENDS Integers, Sequences, FiniteSets, Bags, TLC

VARIABLES
    \* ---- Supervisor (core/supervisor.py) ----
    supCfg,          \* SupervisorConfig: max_restarts, window_seconds, backoff_seconds, max_backoff_seconds
    supPc,           \* position of the thread inside Supervisor.run()
    stopPc,          \* position of the thread (or signal handler) inside Supervisor.stop()
    stopEvent,       \* self._stop_event
    child,           \* self._child: [pid, alive, code]; pid = 0 is "no Popen object yet"
    restartHistory,  \* self._restart_history (deque of timestamps)
    restartCount,    \* self._restart_count
    lastExitCode,    \* self._last_exit_code
    exitCode,        \* local exit_code of run()
    backoffUntil,    \* deadline of the pending _stop_event.wait(delay)
    health,          \* self._health_payload
    stateFile,       \* the content of the state file, as a reader finds it
    pending,         \* per thread: the document of its _write_state call in progress
    supRet,          \* return value of run()
    supClock,        \* time.time() as read by the supervisor
    launches,        \* number of subprocess.Popen calls made by run()
    exits,           \* exit codes returned by child.wait(), in order
    firstExitAt,     \* time of the first non-zero exit registered as a restart
    restartTimes,    \* the time of every _register_restart call, in order
    hookLog,         \* the SupervisorHooks calls made so far, in order
    termSent,        \* pids that were sent the stop signal
    killed,          \* pids that were killed after the grace period
    probe,           \* the last GET the health server answered: path, status read, code sent
    \* ---- RuntimePool / RuntimeGateway (core/runtime_pool.py, core/runtime_gateway.py) ----
    poolCfg,         \* PoolConfig: min_runtimes, max_runtimes
    processes,       \* self._processes, an insertion-ordered dict, as a sequence of RuntimeProcess
    desired,         \* self._desired_runtimes
    portCursor,      \* self._port_cursor
    registry,        \* RuntimeGateway._endpoints: (protocol, name) -> endpoint
    poolClock,       \* time.time() as read by the pool
    poolOp,          \* the pool operation that ran last and the error it raised
    lastD,           \* argument of the most recent scale_to (None before the first)
    spawnFailed,     \* some _spawn_locked call has raised
    regLog,          \* the register / unregister calls made on the registry directly, in order
    regOp,           \* the registry call that ran last, with what it returned
    \* ---- AuthManager / TokenStore / GatewayServer (core/auth.py, core/gateway_server.py) ----
    authCfg,         \* AuthManager configuration: bootstrap_token, default_ttl, rate_limit_per_minute
    records,         \* AuthManager._records: token value -> TokenMetadata
    store,           \* TokenStore payload: token value -> serialised TokenMetadata
    minted,          \* number of token values secrets.token_urlsafe has produced so far
    bootstrapToken,  \* AuthManager._bootstrap_token
    authNow,         \* time.time() as read by the Auth Manager
    usagePc,         \* per caller thread: position inside record_usage
    usageArg,        \* per caller thread: [token, now] of the record_usage call in progress
    usageLog,        \* bag of the completed record_usage calls: [token, now, outcome, limit]
    authOp,          \* the Auth Manager / gateway step that ran last, with its result
    backendCalls,    \* number of backend operations the gateway's handlers have invoked
    ensurePc,        \* per caller thread: position inside ensure_bootstrap_token
    ensureTok,       \* per caller thread: token of the metadata minted or returned by its calls
    ensureOverlap,   \* some ensure_bootstrap_token call began while another was in progress
    conn,            \* one WebSocket or IPC connection: what its handler has read and written
    \* ---- SandboxHarness (core/sandbox.py) ----
    permissions,     \* SandboxHarness.permissions (SandboxPermissions)
    allowNetwork,    \* SandboxHarness.config.allow_network
    allowSubprocesses, \* SandboxHarness.config.allow_subprocesses
    sbOp,            \* the last execute() call: its action and its outcome
    procsStarted,    \* number of child processes started by execute()
    targetCalls,     \* number of times a child invoked an action's target
    execCall,        \* the execute() call in progress on one thread: its position and what it read
    updCall,         \* the update_permissions() call in progress on another thread
    published,       \* the permission sets in force since the execute() in progress began, in order
    \* ---- Shutdown (automation_daemon.py, core/runtime_pool.py) ----
    monitorPc,       \* position of the runtime-pool-monitor thread inside _pool_monitor
    monitorStop,     \* pool_monitor_stop (threading.Event)
    daemonStopPc,    \* position of the thread inside DaemonHandle.stop()
    stopProcs,       \* procs of RuntimePool.stop(): the workers taken out of the pool, to be stopped
    server,          \* GatewayServer: _running, its servers and loop, the IPC socket file
    serverLog        \* what the last start() and the stop() after it did to the transports, in order

supVars == <<supCfg, supPc, stopPc, stopEvent, child, restartHistory, restartCount,
             lastExitCode, exitCode, backoffUntil, health, stateFile, pending, supRet,
             supClock, launches, exits, firstExitAt, restartTimes,
                   hookLog, termSent, killed>>
poolVars == <<poolCfg, processes, desired, portCursor, registry, poolClock, poolOp,
              lastD, spawnFailed>>
authVars == <<authCfg, records, store, minted, bootstrapToken, authNow, usagePc, usageArg,
              usageLog, authOp, backendCalls>>
sbVars == <<permissions, allowNetwork, allowSubprocesses, sbOp, procsStarted, targetCalls,
            execCall, updCall, published>>
bootVars == <<ensurePc, ensureTok, ensureOverlap>>
connVars == <<conn>>
probeVars == <<probe>>
regVars == <<regLog, regOp>>
lifeVars == <<monitorPc, monitorStop, daemonStopPc, stopProcs, server, serverLog>>
vars == <<supVars, poolVars, authVars, sbVars, bootVars, connVars, probeVars, regVars,
          lifeVars>>
notSup == <<poolVars, authVars, sbVars, bootVars, connVars, probeVars, regVars, lifeVars>>
notPool == <<supVars, authVars, sbVars, bootVars, connVars, probeVars, regVars, lifeVars>>
notAuth == <<supVars, poolVars, sbVars, bootVars, connVars, probeVars, regVars, lifeVars>>
notSandbox == <<supVars, poolVars, authVars, bootVars, connVars, probeVars, regVars, lifeVars>>
notGateway == <<supVars, poolVars, sbVars, bootVars, probeVars, regVars, lifeVars>>
notBoot == <<supVars, poolVars, sbVars, connVars, probeVars, regVars, lifeVars>>
notProbe == <<supVars, poolVars, authVars, sbVars, bootVars, connVars, regVars, lifeVars>>
notRegistry == <<supVars, authVars, sbVars, bootVars, connVars, probeVars, lifeVars>>
notShutdown == <<supVars, authVars, sbVars, bootVars, connVars, probeVars, regVars>>

\* Python's None, for the optional integers of the program.
None == -100

Max(a, b) == IF a >= b THEN a ELSE b
Min(a, b) == IF a <= b THEN a ELSE b

(***************************************************************************)
(* Bounds of the model.                                                    *)
(***************************************************************************)
MaxRestartsCfg == 2   \* max_restarts is drawn from 0..MaxRestartsCfg
MaxSupClock == 4      \* the supervisor's clock stops advancing here
MaxLaunches == 4      \* run() is not followed beyond this many Popen calls

WindowCfg == 2        \* window_seconds is drawn from {0, WindowCfg}
MaxBackoffCfg == 2    \* max_backoff_seconds of the modelled configurations
MaxBackoffWide == 3   \* a larger max_backoff_seconds, for the runs of run() alone

(***************************************************************************)
(* Supervisor (core/supervisor.py)                                         *)
(***************************************************************************)
\* Return code of a child ended by SIGTERM / by SIGKILL (subprocess reports -signum).
SigTermCode == -15
SigKillCode == -9

SupConfigs ==
    [max_restarts : 0..MaxRestartsCfg,
     window_seconds : {0, WindowCfg},
     backoff_seconds : {0, 1},
     max_backoff_seconds : {MaxBackoffCfg}]

\* Configurations of the supervisor whose health endpoint is probed: no budget
\* or the largest one, the restarts counted within the window.
HealthConfigs ==
    {cfg \in SupConfigs : /\ cfg.max_restarts \in {0, MaxRestartsCfg}
                          /\ cfg.window_seconds = WindowCfg}

\* Configurations with a budget and a window that let every launch fail.
BackoffConfigs ==
    [max_restarts : {0, 1, MaxRestartsCfg, MaxLaunches},
     window_seconds : {0, WindowCfg, MaxSupClock},
     backoff_seconds : {0, 1, 2},
     max_backoff_seconds : {MaxBackoffCfg, MaxBackoffWide}]

NoChild == [pid |-> 0, alive |-> FALSE, code |-> None]

\* The payload _set_health_status builds (timestamp left out).
HealthPayload(status, running, child_pid, exit_code, rc, lec) ==
    [status |-> status,
     running |-> running,
     child_pid |-> child_pid,
     restart_count |-> rc,
     last_exit_code |-> IF exit_code # None THEN exit_code ELSE lec]

\* The document _write_state writes (timestamps and health_endpoint left out).
StateDoc(running, child_pid, rc, lec, snapshot) ==
    [running |-> running,
     child_pid |-> IF running THEN child_pid ELSE None,
     restart_count |-> rc,
     last_exit_code |-> lec,
     health |-> snapshot]

\* The threads that write the state file: run() and a stop() caller.
Writers == {"run", "stop"}

\* A thread that is not inside write_text.
NoWrite == [content |-> "none"]

\* The state file before the first write, and right after open(mode="w").
NoFile == [content |-> "absent"]
EmptyFile == [content |-> "empty"]

\* A document written over a longer one that another writer put there.
GarbledFile == [content |-> "garbled"]

\* _set_health_status by thread t: replace the payload; _write_state builds the
\* document and Path.write_text opens the file, which truncates it.
SetHealthStatus(t, status, running, child_pid, exit_code, rc, lec) ==
    /\ health' = HealthPayload(status, running, child_pid, exit_code, rc, lec)
    /\ pending' = [pending EXCEPT ![t] = StateDoc(running, child_pid, rc, lec, health')]
    /\ stateFile' = EmptyFile

\* Path.write_text by thread t: the data is written at offset 0 and the file is
\* closed. When another writer has written since this thread's open, the data
\* lands on that writer's document and replaces it only if it is as long.
WriteText(t) ==
    /\ pending[t] # NoWrite
    /\ stateFile' \in IF stateFile = EmptyFile
                      THEN {pending[t]}
                      ELSE {pending[t], GarbledFile}
    /\ pending' = [pending EXCEPT ![t] = NoWrite]

RECURSIVE PopLeftWhileOlder(_, _)
PopLeftWhileOlder(h, threshold) ==
    IF h # <<>> /\ Head(h) < threshold
    THEN PopLeftWhileOlder(Tail(h), threshold)
    ELSE h

\* A _cleanup_restart_history that drops nothing while the window is positive.
CleanupRestartHistoryKeepsAll(h, now) ==
    LET window == Max(0, supCfg.window_seconds)
    IN  IF window <= 0 THEN <<>> ELSE h

CleanupRestartHistory(h, now) ==
    LET window == Max(0, supCfg.window_seconds)
    IN  IF window <= 0 THEN <<>> ELSE PopLeftWhileOlder(h, now - window)

ShouldRestart(h) ==
    LET max_restarts == Max(0, supCfg.max_restarts)
    IN  IF max_restarts = 0 THEN FALSE ELSE Len(h) < max_restarts

\* _next_backoff_delay with the exponent taken from the length of the history.
NextBackoffDelayFromLen(h) ==
    LET base == Max(0, supCfg.backoff_seconds)
    IN  IF base = 0
        THEN 0
        ELSE Min(supCfg.max_backoff_seconds, base * (2 ^ Len(h)))

NextBackoffDelay(h) ==
    LET base == Max(0, supCfg.backoff_seconds)
    IN  IF base = 0
        THEN 0
        ELSE LET attempt == Max(0, Len(h) - 1)
             IN  Min(supCfg.max_backoff_seconds, base * (2 ^ attempt))

\* _terminate_child: nothing for a missing or already exited child; otherwise the
\* stop signal, and the kill when the child outlives graceful_shutdown_seconds.
TerminateChild(exitsInTime) ==
    IF child.pid = 0 \/ ~child.alive
    THEN UNCHANGED <<child, termSent, killed>>
    ELSE /\ termSent' = termSent \cup {child.pid}
         /\ IF exitsInTime
            THEN /\ child' = [child EXCEPT !.alive = FALSE, !.code = SigTermCode]
                 /\ UNCHANGED killed
            ELSE /\ child' = [child EXCEPT !.alive = FALSE, !.code = SigKillCode]
                 /\ killed' = killed \cup {child.pid}

\* A call of on_child_start that passes the number of the launch.
OnChildStartLaunchNo(log, pid, count) ==
    Append(log, [hook |-> "on_child_start", a |-> pid, b |-> pid])

\* self._hooks.on_child_start(self._child.pid, self._restart_count)
OnChildStart(log, pid, count) ==
    Append(log, [hook |-> "on_child_start", a |-> pid, b |-> count])

\* self._hooks.on_child_exit(exit_code, self._restart_count)
OnChildExit(log, code, count) ==
    Append(log, [hook |-> "on_child_exit", a |-> code, b |-> count])

\* self._hooks.on_restart(self._restart_count)
OnRestart(log, count) == Append(log, [hook |-> "on_restart", a |-> count, b |-> None])

\* run(): _prepare()
RunPrepare ==
    /\ supPc = "start"
    /\ pending.run = NoWrite
    /\ SetHealthStatus("run", "initializing", FALSE, None, None, restartCount, lastExitCode)
    /\ supPc' = "loop"
    /\ UNCHANGED <<supCfg, stopPc, stopEvent, child, restartHistory, restartCount,
                   lastExitCode, exitCode, backoffUntil, supRet, supClock, launches,
                   exits, firstExitAt, restartTimes,
                   hookLog, termSent, killed>>
    /\ UNCHANGED notSup

\* run(): while not self._stop_event.is_set()
RunLoopCheck ==
    /\ supPc = "loop"
    /\ pending.run = NoWrite
    /\ supPc' = IF stopEvent THEN "teardown" ELSE "spawn"
    /\ UNCHANGED <<supCfg, stopPc, stopEvent, child, restartHistory, restartCount,
                   lastExitCode, exitCode, backoffUntil, health, stateFile, pending,
                   supRet, supClock, launches, exits, firstExitAt, restartTimes,
                   hookLog, termSent, killed>>
    /\ UNCHANGED notSup

\* _spawn_and_monitor_child: _cleanup_restart_history() and subprocess.Popen
RunSpawn ==
    /\ supPc = "spawn"
    /\ pending.run = NoWrite
    /\ launches < MaxLaunches
    /\ restartHistory' = CleanupRestartHistory(restartHistory, supClock)
    /\ child' = [pid |-> launches + 1, alive |-> TRUE, code |-> None]
    /\ launches' = launches + 1
    /\ supPc' = "ready"
    /\ UNCHANGED <<supCfg, stopPc, stopEvent, restartCount, lastExitCode, exitCode,
                   backoffUntil, health, stateFile, pending, supRet, supClock, exits,
                   firstExitAt, restartTimes,
                   hookLog, termSent, killed>>
    /\ UNCHANGED notSup

\* _spawn_and_monitor_child: _set_health_status(status="ready", ...)
RunSetReady ==
    /\ supPc = "ready"
    /\ pending.run = NoWrite
    /\ SetHealthStatus("run", "ready", TRUE, child.pid, None, restartCount, lastExitCode)
    /\ hookLog' = OnChildStart(hookLog, child.pid, restartCount)
    /\ supPc' = "wait"
    /\ UNCHANGED <<supCfg, stopPc, stopEvent, child, restartHistory, restartCount,
                   lastExitCode, exitCode, backoffUntil, supRet, supClock, launches,
                   exits, firstExitAt, restartTimes, termSent, killed>>
    /\ UNCHANGED notSup

\* The supervised child exits on its own, cleanly or with code 1.
ChildExit ==
    /\ child.alive
    /\ \E c \in {0, 1} : child' = [child EXCEPT !.alive = FALSE, !.code = c]
    /\ UNCHANGED <<supCfg, supPc, stopPc, stopEvent, restartHistory, restartCount,
                   lastExitCode, exitCode, backoffUntil, health, stateFile, pending,
                   supRet, supClock, launches, exits, firstExitAt, restartTimes,
                   hookLog, termSent, killed>>
    /\ UNCHANGED notSup

\* _spawn_and_monitor_child: child.wait() returns; status stopped / failed
RunWaitReturn ==
    /\ supPc = "wait"
    /\ pending.run = NoWrite
    /\ ~child.alive
    /\ exitCode' = child.code
    /\ lastExitCode' = child.code
    /\ exits' = Append(exits, child.code)
    /\ SetHealthStatus("run", IF child.code = 0 THEN "stopped" ELSE "failed", FALSE, None,
                       child.code, restartCount, child.code)
    /\ hookLog' = OnChildExit(hookLog, child.code, restartCount)
    /\ supPc' = "exited"
    /\ UNCHANGED <<supCfg, stopPc, stopEvent, child, restartHistory, restartCount,
                   backoffUntil, supRet, supClock, launches, firstExitAt, restartTimes,
                   termSent, killed>>
    /\ UNCHANGED notSup

\* _spawn_and_monitor_child: if exit_code != 0 and not stop: _register_restart()
RunRegisterRestart ==
    /\ supPc = "exited"
    /\ pending.run = NoWrite
    /\ IF exitCode # 0 /\ ~stopEvent
       THEN /\ restartHistory' =
                 CleanupRestartHistory(Append(restartHistory, supClock), supClock)
            /\ restartCount' = restartCount + 1
            /\ firstExitAt' = IF firstExitAt = None THEN supClock ELSE firstExitAt
            /\ restartTimes' = Append(restartTimes, supClock)
            /\ hookLog' = OnRestart(hookLog, restartCount + 1)
            /\ SetHealthStatus("run", "restarting", FALSE, None, None, restartCount + 1,
                               lastExitCode)
       ELSE UNCHANGED <<restartHistory, restartCount, firstExitAt, restartTimes,
                         hookLog, health, stateFile, pending>>
    /\ supPc' = "decide"
    /\ UNCHANGED <<supCfg, stopPc, stopEvent, child, lastExitCode, exitCode,
                   backoffUntil, supRet, supClock, launches, exits, termSent, killed>>
    /\ UNCHANGED notSup

\* run(): the tests after _spawn_and_monitor_child returns, up to the backoff wait
RunDecide ==
    /\ supPc = "decide"
    /\ pending.run = NoWrite
    /\ IF stopEvent \/ exitCode = 0 \/ ~ShouldRestart(restartHistory)
       THEN /\ supPc' = "teardown"
            /\ UNCHANGED backoffUntil
       ELSE IF NextBackoffDelay(restartHistory) > 0
            THEN /\ supPc' = "backoff"
                 /\ backoffUntil' = supClock + NextBackoffDelay(restartHistory)
            ELSE /\ supPc' = "loop"
                 /\ UNCHANGED backoffUntil
    /\ UNCHANGED <<supCfg, stopPc, stopEvent, child, restartHistory, restartCount,
                   lastExitCode, exitCode, health, stateFile, pending, supRet,
                   supClock, launches, exits, firstExitAt, restartTimes,
                   hookLog, termSent, killed>>
    /\ UNCHANGED notSup

\* run(): self._stop_event.wait(delay) returns (True: stop was set; False: timeout)
RunBackoffDone ==
    /\ supPc = "backoff"
    /\ pending.run = NoWrite
    /\ stopEvent \/ supClock >= backoffUntil
    /\ supPc' = IF stopEvent THEN "teardown" ELSE "loop"
    /\ UNCHANGED <<supCfg, stopPc, stopEvent, child, restartHistory, restartCount,
                   lastExitCode, exitCode, backoffUntil, health, stateFile, pending,
                   supRet, supClock, launches, exits, firstExitAt, restartTimes,
                   hookLog, termSent, killed>>
    /\ UNCHANGED notSup

\* run(): finally: _teardown(); return exit_code
RunTeardown ==
    /\ supPc = "teardown"
    /\ pending.run = NoWrite
    /\ \E exitsInTime \in BOOLEAN : TerminateChild(exitsInTime)
    /\ SetHealthStatus("run", "stopped", FALSE, None, None, restartCount, lastExitCode)
    /\ supRet' = exitCode
    /\ supPc' = "done"
    /\ UNCHANGED <<supCfg, stopPc, stopEvent, restartHistory, restartCount,
                   lastExitCode, exitCode, backoffUntil, supClock, launches, exits,
                   firstExitAt, restartTimes, hookLog>>
    /\ UNCHANGED notSup

\* stop(): self._stop_event.set()
StopRequest ==
    /\ stopPc = "idle"
    /\ pending.stop = NoWrite
    /\ stopEvent' = TRUE
    /\ stopPc' = "health"
    /\ UNCHANGED <<supCfg, supPc, child, restartHistory, restartCount, lastExitCode,
                   exitCode, backoffUntil, health, stateFile, pending, supRet,
                   supClock, launches, exits, firstExitAt, restartTimes,
                   hookLog, termSent, killed>>
    /\ UNCHANGED notSup

\* stop(): read the child's pid if it is running; _set_health_status("stopping")
StopSetHealth ==
    /\ stopPc = "health"
    /\ pending.stop = NoWrite
    /\ LET child_pid == IF child.pid # 0 /\ child.alive THEN child.pid ELSE None
       IN  SetHealthStatus("stop", "stopping", child_pid # None, child_pid, None,
                           restartCount, lastExitCode)
    /\ stopPc' = "term"
    /\ UNCHANGED <<supCfg, supPc, stopEvent, child, restartHistory, restartCount,
                   lastExitCode, exitCode, backoffUntil, supRet, supClock, launches,
                   exits, firstExitAt, restartTimes,
                   hookLog, termSent, killed>>
    /\ UNCHANGED notSup

\* stop(): self._terminate_child()
StopTerminate ==
    /\ stopPc = "term"
    /\ pending.stop = NoWrite
    /\ \E exitsInTime \in BOOLEAN : TerminateChild(exitsInTime)
    /\ stopPc' = "done"
    /\ UNCHANGED <<supCfg, supPc, stopEvent, restartHistory, restartCount,
                   lastExitCode, exitCode, backoffUntil, health, stateFile, pending,
                   supRet, supClock, launches, exits, firstExitAt, restartTimes, hookLog>>
    /\ UNCHANGED notSup

\* _write_state of run(): write_text writes the document and closes the file
RunWriteState ==
    /\ WriteText("run")
    /\ UNCHANGED <<supCfg, supPc, stopPc, stopEvent, child, restartHistory, restartCount,
                   lastExitCode, exitCode, backoffUntil, health, supRet, supClock,
                   launches, exits, firstExitAt, restartTimes,
                   hookLog, termSent, killed>>
    /\ UNCHANGED notSup

\* _write_state of stop(): write_text writes the document and closes the file
StopWriteState ==
    /\ WriteText("stop")
    /\ UNCHANGED <<supCfg, supPc, stopPc, stopEvent, child, restartHistory, restartCount,
                   lastExitCode, exitCode, backoffUntil, health, supRet, supClock,
                   launches, exits, firstExitAt, restartTimes,
                   hookLog, termSent, killed>>
    /\ UNCHANGED notSup

\* daemon_manager._load_supervisor_state: {} when the file is missing or is not
\* a JSON document, else the document.
EmptyState == [content |-> "{}"]
LoadSupervisorState(file) ==
    IF file \in {NoFile, EmptyFile, GarbledFile} THEN EmptyState ELSE file

\* ---- the health server (_start_health_server) ----

\* Request paths: the configured health path, its two aliases, and another one.
HealthPaths == {"/healthz", "/health", "/metrics"}

\* do_GET answers the path with the health payload
IsHealthPath(path) == path \in {"/healthz", "/health"}

\* A do_GET that answers 200 whenever the payload reports a running child.
HealthStatusCodeByRunning(payload) == IF payload.running THEN 200 ELSE 503

\* do_GET line 313: 200 if the payload's status is "ready", else 503
HealthStatusCode(payload) == IF payload.status = "ready" THEN 200 ELSE 503

\* No request has been answered.
NoProbe == [path |-> "none", status |-> "none", code |-> 0]

\* The health server, which runs from _prepare to _teardown, answers one GET.
HealthProbe ==
    /\ supPc \notin {"start", "done"}
    /\ \E path \in HealthPaths :
          probe' = IF IsHealthPath(path)
                   THEN [path |-> path, status |-> health.status,
                         code |-> HealthStatusCode(health)]
                   ELSE [path |-> path, status |-> "none", code |-> 404]
    /\ UNCHANGED notProbe

QuietProbe == probe = NoProbe

\* Time passes.
SupTick ==
    /\ supClock < MaxSupClock
    /\ supClock' = supClock + 1
    /\ UNCHANGED <<supCfg, supPc, stopPc, stopEvent, child, restartHistory,
                   restartCount, lastExitCode, exitCode, backoffUntil, health,
                   stateFile, pending, supRet, launches, exits, firstExitAt, restartTimes,
                   hookLog, termSent, killed>>
    /\ UNCHANGED notSup

\* Supervisor.__init__: the fields the constructor sets
SupStart ==
    /\ supPc = "start"
    /\ stopPc = "idle"
    /\ stopEvent = FALSE
    /\ child = NoChild
    /\ restartHistory = <<>>
    /\ restartCount = 0
    /\ lastExitCode = None
    /\ exitCode = 0
    /\ backoffUntil = 0
    /\ health = HealthPayload("initializing", FALSE, None, None, 0, None)
    /\ stateFile = NoFile
    /\ pending = [t \in Writers |-> NoWrite]
    /\ supRet = None
    /\ supClock = 0
    /\ launches = 0
    /\ exits = <<>>
    /\ firstExitAt = None
    /\ restartTimes = <<>>
    /\ hookLog = <<>>
    /\ termSent = {}
    /\ killed = {}

InitSup == supCfg \in SupConfigs /\ SupStart

\* The supervisor left unused, under its default-like configuration.
QuietSup ==
    /\ InitSup
    /\ supCfg = [max_restarts |-> MaxRestartsCfg, window_seconds |-> WindowCfg,
                 backoff_seconds |-> 0, max_backoff_seconds |-> MaxBackoffCfg]

NextSup ==
    \/ RunPrepare
    \/ RunLoopCheck
    \/ RunSpawn
    \/ RunSetReady
    \/ ChildExit
    \/ RunWaitReturn
    \/ RunRegisterRestart
    \/ RunDecide
    \/ RunBackoffDone
    \/ RunTeardown
    \/ StopRequest
    \/ StopSetHealth
    \/ StopTerminate
    \/ RunWriteState
    \/ StopWriteState
    \/ SupTick

\* run() with no stop() caller.
NextRun ==
    \/ RunPrepare
    \/ RunLoopCheck
    \/ RunSpawn
    \/ RunSetReady
    \/ ChildExit
    \/ RunWaitReturn
    \/ RunRegisterRestart
    \/ RunDecide
    \/ RunBackoffDone
    \/ RunTeardown
    \/ RunWriteState
    \/ SupTick

\* The supervisor with clients of its health endpoint.
NextHealth ==
    \/ RunPrepare
    \/ RunLoopCheck
    \/ RunSpawn
    \/ RunSetReady
    \/ ChildExit
    \/ RunWaitReturn
    \/ RunRegisterRestart
    \/ RunDecide
    \/ RunBackoffDone
    \/ RunTeardown
    \/ StopRequest
    \/ StopSetHealth
    \/ StopTerminate
    \/ RunWriteState
    \/ StopWriteState
    \/ HealthProbe
    \/ SupTick

(***************************************************************************)
(* RuntimeGateway registry (core/runtime_gateway.py)                       *)
(***************************************************************************)
\* register: endpoints[protocol][name] = endpoint
Register(reg, protocol, name, endpoint) ==
    [k \in DOMAIN reg \cup {<<protocol, name>>} |->
        IF k = <<protocol, name>> THEN endpoint ELSE reg[k]]

\* unregister: delete the entry if it is there
Unregister(reg, protocol, name) ==
    [k \in DOMAIN reg \ {<<protocol, name>>} |-> reg[k]]

\* find
Find(reg, protocol, name) ==
    IF <<protocol, name>> \in DOMAIN reg THEN {reg[<<protocol, name>>]} ELSE {}

MaxRegistryOps == 3   \* register / unregister calls followed on the registry

\* _PROTOCOLS, and the protocol arguments callers pass
Protocols == {"grpc", "http", "ws", "ipc"}
ProtocolArgs == {"http", "HTTP", "ws", "ftp"}
EndpointNames == {"mlx", "assistant"}
Addresses == {"127.0.0.1:9000", "127.0.0.1:9001"}

\* str.lower() on the protocol arguments
Lower(protocol) == IF protocol = "HTTP" THEN "http" ELSE protocol

\* RuntimeEndpoint(name, protocol, address): __post_init__ stores the protocol
\* in lower case; the metadata default is an empty dict. oid is the identity
\* of the object built (Python's id()), not a field of the dataclass.
RuntimeEndpoint(name, protocol, address, oid) ==
    [name |-> name, protocol |-> Lower(protocol), address |-> address,
     metadata |-> <<>>, oid |-> oid]

\* dataclasses.asdict(endpoint): a new dict, with a copy of the metadata
AsDict(endpoint) ==
    [name |-> endpoint.name, protocol |-> endpoint.protocol,
     address |-> endpoint.address, metadata |-> endpoint.metadata]

\* A register that files the endpoint under its address.
RegisterByAddress(reg, endpoint) ==
    Register(reg, endpoint.protocol, endpoint.address, endpoint)

\* register(endpoint): filed under the endpoint's protocol and name
RegisterEndpoint(reg, endpoint) ==
    Register(reg, endpoint.protocol, endpoint.name, endpoint)

\* unregister(protocol, name): the protocol argument is lower-cased
UnregisterEndpoint(reg, protocol, name) == Unregister(reg, Lower(protocol), name)

\* find(protocol, name): the protocol argument is lower-cased; {} is None
FindEndpoint(reg, protocol, name) == Find(reg, Lower(protocol), name)

\* The values of one protocol's dict, as the list a read builds from them.
ProtoValues(reg, proto) ==
    LET keys == {k \in DOMAIN reg : k[1] = proto}
        listed == {reg[k] : k \in keys}
    IN  [e \in listed |-> Cardinality({k \in keys : reg[k] = e})]

\* endpoints(protocol): every protocol's values for None, else one protocol's
EndpointsOf(reg, protocol) ==
    IF protocol = "None"
    THEN LET listed == {reg[k] : k \in DOMAIN reg}
         IN  [e \in listed |-> Cardinality({k \in DOMAIN reg : reg[k] = e})]
    ELSE ProtoValues(reg, Lower(protocol))

\* snapshot(): per protocol the asdict() of its endpoints (tokens left out)
SnapshotOf(reg) ==
    [proto \in Protocols |->
        LET keys == {k \in DOMAIN reg : k[1] = proto}
            listed == {AsDict(reg[k]) : k \in keys}
        IN  [d \in listed |-> Cardinality({k \in keys : AsDict(reg[k]) = d})]]

\* The caller of a read sets metadata["tampered"] on the object it was given.
\* The object is in the registry if the read handed out the stored endpoint.
Tampered == [tampered |-> TRUE]
SetMetadata(reg, given) ==
    [k \in DOMAIN reg |->
        IF "oid" \in DOMAIN given /\ reg[k].oid = given.oid
        THEN [reg[k] EXCEPT !.metadata = Tampered]
        ELSE reg[k]]

(***************************************************************************)
(* RuntimePool (core/runtime_pool.py)                                      *)
(***************************************************************************)
BasePort == 9600      \* PoolConfig.base_port
MaxMinCfg == 1        \* min_runtimes is drawn from 0..MaxMinCfg
MaxMaxCfg == 2        \* max_runtimes is drawn from 0..MaxMaxCfg (0: unbounded)
MaxDesired == 3       \* scale_to arguments are drawn from -1..MaxDesired
MaxPoolClock == 2     \* the pool's clock stops advancing here
MaxAutoPorts == 3     \* the port cursor is followed up to BasePort + MaxAutoPorts
MaxWorkers == 3       \* pool calls that would leave more workers than this are not followed
MaxWorkerRestarts == 2 \* a worker that was restarted this often no longer crashes

PoolConfigs == [min_runtimes : 0..MaxMinCfg, max_runtimes : 0..MaxMaxCfg]

\* f"runtime-{worker_index}"
RuntimeName(worker_index) == "runtime-" \o ToString(worker_index)

\* The pool's state as the operators below thread it through one locked call:
\* the worker dict, the port cursor, the registry, the clock, the error raised,
\* and the blocking operations the call has made while it holds self._lock.
PoolState == [procs |-> processes, cursor |-> portCursor, reg |-> registry,
              clock |-> poolClock, err |-> "none", held |-> {}]

\* _stop_process lines 301-308: terminate(), process.wait(timeout), kill()
StopProcess == {"terminate", "wait"}

\* _restart_locked line 287: time.sleep(restart_backoff)
BackoffSleep == {"sleep"}

Names(procs) == {procs[i].name : i \in 1..Len(procs)}

\* dict.pop(name): the sequence without the worker called name
WithoutName(procs, name) == SelectSeq(procs, LAMBDA w : w.name # name)

\* _bound_capacity
BoundCapacity(d) ==
    LET d0 == Max(0, d)
        d1 == IF d0 < poolCfg.min_runtimes THEN poolCfg.min_runtimes ELSE d0
    IN  IF poolCfg.max_runtimes > 0 THEN Min(d1, poolCfg.max_runtimes) ELSE d1

\* _register_endpoint_locked: the endpoint of a freshly started worker
BootingEndpoint(w) ==
    [name |-> w.name, protocol |-> "http", port |-> w.port,
     metadata |-> [status |-> "booting", port |-> w.port]]

\* heartbeat: the endpoint registered from the collected health
HealthEndpoint(w) ==
    [name |-> w.name, protocol |-> "http", port |-> w.port,
     metadata |-> [status |-> IF w.alive THEN "ready" ELSE "stopped",
                   restarts |-> w.restarts]]

\* A _spawn_locked that takes the port from the cursor before it tests the name.
SpawnLockedPortFirst(ps, name, port, adv) ==
    IF ps.err # "none" THEN ps
    ELSE IF 0 < poolCfg.max_runtimes /\ poolCfg.max_runtimes <= Len(ps.procs)
    THEN [ps EXCEPT !.err = "capacity_exceeded"]
    ELSE LET worker_name == IF name # "" THEN name ELSE RuntimeName(Len(ps.procs) + 1)
             assigned_port == IF port # None THEN port ELSE ps.cursor
             cursor == IF port = None THEN ps.cursor + 1
                       ELSE Max(ps.cursor, assigned_port + 1)
             w == [name |-> worker_name, port |-> assigned_port,
                   alive |-> TRUE, started_at |-> ps.clock, restarts |-> 0]
         IN  IF worker_name \in Names(ps.procs)
             THEN [ps EXCEPT !.err = "name_conflict", !.cursor = cursor]
             ELSE [procs |-> Append(ps.procs, w),
                   cursor |-> cursor,
                   reg |-> Register(ps.reg, "http", worker_name, BootingEndpoint(w)),
                   clock |-> ps.clock + adv,
                   err |-> "none",
                   held |-> ps.held]

\* _spawn_locked(name, port); name = "" and port = None stand for "not given".
\* adv is the time the clock moves between this time.time() and the next.
SpawnLocked(ps, name, port, adv) ==
    IF ps.err # "none" THEN ps
    ELSE IF 0 < poolCfg.max_runtimes /\ poolCfg.max_runtimes <= Len(ps.procs)
    THEN [ps EXCEPT !.err = "capacity_exceeded"]
    ELSE LET worker_name == IF name # "" THEN name ELSE RuntimeName(Len(ps.procs) + 1)
         IN  IF worker_name \in Names(ps.procs)
             THEN [ps EXCEPT !.err = "name_conflict"]
             ELSE LET assigned_port == IF port # None THEN port ELSE ps.cursor
                      w == [name |-> worker_name, port |-> assigned_port,
                            alive |-> TRUE, started_at |-> ps.clock, restarts |-> 0]
                  IN  [procs |-> Append(ps.procs, w),
                       cursor |-> IF port = None
                                  THEN ps.cursor + 1
                                  ELSE Max(ps.cursor, assigned_port + 1),
                       reg |-> Register(ps.reg, "http", worker_name, BootingEndpoint(w)),
                       clock |-> ps.clock + adv,
                       err |-> "none",
                       held |-> ps.held]

\* max(self._processes.items(), key=started_at): the first worker, in dict order,
\* among those with the largest started_at
RECURSIVE FirstMaxStarted(_, _, _)
FirstMaxStarted(procs, i, best) ==
    IF i > Len(procs) THEN best
    ELSE FirstMaxStarted(procs, i + 1,
             IF procs[i].started_at > procs[best].started_at THEN i ELSE best)

\* A _shrink_locked that unregisters the most recently started worker but leaves
\* it in the worker dict.
ShrinkLockedKeepsWorker(ps) ==
    IF ps.err # "none" \/ ps.procs = <<>> THEN ps
    ELSE LET victim == ps.procs[FirstMaxStarted(ps.procs, 1, 1)]
         IN  [ps EXCEPT !.reg = Unregister(ps.reg, "http", victim.name)]

\* _shrink_locked: pop the most recently started worker, stop it, unregister it
ShrinkLocked(ps) ==
    IF ps.err # "none" \/ ps.procs = <<>> THEN ps
    ELSE LET victim == ps.procs[FirstMaxStarted(ps.procs, 1, 1)]
         IN  [ps EXCEPT !.procs = WithoutName(ps.procs, victim.name),
                        !.reg = Unregister(ps.reg, "http", victim.name),
                        !.held = ps.held \cup StopProcess]

RECURSIVE GrowTo(_, _, _, _)
GrowTo(ps, current, target, adv) ==
    IF ps.err # "none" \/ current >= target THEN ps
    ELSE GrowTo(SpawnLocked(ps, "", None, adv), current + 1, target, adv)

RECURSIVE ShrinkTo(_, _, _)
ShrinkTo(ps, current, target) ==
    IF ps.err # "none" \/ current <= target THEN ps
    ELSE ShrinkTo(ShrinkLocked(ps), current - 1, target)

\* _ensure_capacity_locked
EnsureCapacityLocked(ps, target, adv) ==
    LET current == Len(ps.procs)
        grown == GrowTo(ps, current, target, adv)
    IN  ShrinkTo(grown, Max(current, target), target)

\* _restart_locked(proc): pop, stop and unregister, back off, spawn again under the
\* same name and port, carry the restart count over
RestartLocked(ps, w, adv) ==
    IF ps.err # "none" THEN ps
    ELSE LET popped == [ps EXCEPT !.procs = WithoutName(ps.procs, w.name),
                                  !.reg = Unregister(ps.reg, "http", w.name),
                                  !.clock = ps.clock + adv,
                                  !.held = ps.held \cup StopProcess \cup BackoffSleep]
             spawned == SpawnLocked(popped, w.name, w.port, adv)
         IN  IF spawned.err # "none" THEN spawned
             ELSE [spawned EXCEPT
                      !.procs[Len(spawned.procs)].restarts = w.restarts + 1]

RECURSIVE RestartAll(_, _, _)
RestartAll(ps, to_restart, adv) ==
    IF ps.err # "none" \/ to_restart = <<>> THEN ps
    ELSE RestartAll(RestartLocked(ps, Head(to_restart), adv), Tail(to_restart), adv)

RECURSIVE RegisterHealth(_, _, _)
RegisterHealth(reg, procs, i) ==
    IF i > Len(procs) THEN reg
    ELSE RegisterHealth(Register(reg, "http", procs[i].name, HealthEndpoint(procs[i])),
                        procs, i + 1)

\* heartbeat(): ensure capacity, restart the workers found dead, publish health
HeartbeatLocked(ps, adv) ==
    LET ensured == EnsureCapacityLocked(ps, desired, adv)
        to_restart == SelectSeq(ensured.procs, LAMBDA w : ~w.alive)
        restarted == RestartAll(ensured, to_restart, adv)
    IN  IF restarted.err # "none" THEN restarted
        ELSE [restarted EXCEPT !.reg = RegisterHealth(restarted.reg, restarted.procs, 1)]

\* What a pool call leaves behind, whether it returned or raised; call is the
\* record of the call and of the error it raised.
CommitAs(ps, call) ==
    /\ ps.clock <= MaxPoolClock
    /\ ps.cursor <= BasePort + MaxAutoPorts
    /\ Len(ps.procs) <= MaxWorkers
    /\ processes' = ps.procs
    /\ portCursor' = ps.cursor
    /\ registry' = ps.reg
    /\ poolClock' = ps.clock
    /\ poolOp' = call
    /\ spawnFailed' = (spawnFailed \/ ps.err # "none")

Commit(ps, op) == CommitAs(ps, [op |-> op, err |-> ps.err, held |-> ps.held])

\* scale_to(d) = set_desired_capacity(d)
ScaleTo ==
    \E d \in -1..MaxDesired, adv \in {0, 1} :
        /\ desired' = BoundCapacity(d)
        /\ Commit(EnsureCapacityLocked(PoolState, BoundCapacity(d), adv), "scale_to")
        /\ lastD' = d
        /\ UNCHANGED poolCfg
        /\ UNCHANGED notPool

\* heartbeat()
Heartbeat ==
    \E adv \in {0, 1} :
        /\ Commit(HeartbeatLocked(PoolState, adv), "heartbeat")
        /\ UNCHANGED <<poolCfg, desired, lastD>>
        /\ UNCHANGED notPool

\* A worker process exits on its own.
Crash ==
    \E i \in 1..Len(processes) :
        /\ processes[i].alive
        /\ processes[i].restarts < MaxWorkerRestarts
        /\ processes' = [processes EXCEPT ![i].alive = FALSE]
        /\ poolOp' = [op |-> "crash", err |-> "none", held |-> {}]
        /\ UNCHANGED <<poolCfg, desired, portCursor, registry, poolClock, lastD,
                       spawnFailed>>
        /\ UNCHANGED notPool

\* spawn(name=..., port=...)
Spawn ==
    \E name \in {"", "runtime-2"}, port \in {None, BasePort}, adv \in {0, 1} :
        LET spawned == SpawnLocked(PoolState, name, port, adv)
        IN  /\ CommitAs(spawned, [op |-> "spawn", err |-> spawned.err,
                                  name |-> name, port |-> port,
                                  held |-> spawned.held])
            /\ desired' = IF spawned.err = "none"
                          THEN Max(desired, Len(spawned.procs))
                          ELSE desired
            /\ UNCHANGED <<poolCfg, lastD>>
            /\ UNCHANGED notPool

\* remove(name): the worker is popped under the lock and stopped after the lock
\* is released
Remove ==
    \E name \in Names(processes) \cup {"worker-main"} :
        /\ IF name \in Names(processes)
           THEN /\ processes' = WithoutName(processes, name)
                /\ desired' = Max(poolCfg.min_runtimes,
                                  Min(desired, Len(processes) - 1))
                /\ registry' = Unregister(registry, "http", name)
           ELSE UNCHANGED <<processes, desired, registry>>
        /\ poolOp' = [op |-> "remove", err |-> "none", held |-> {}]
        /\ UNCHANGED <<poolCfg, portCursor, poolClock, lastD, spawnFailed>>
        /\ UNCHANGED notPool

RECURSIVE UnregisterAll(_, _)
UnregisterAll(reg, procs) ==
    IF procs = <<>> THEN reg
    ELSE UnregisterAll(Unregister(reg, "http", Head(procs).name), Tail(procs))

\* stop(): clear the dict, then stop and unregister every worker it held
StopPool ==
    /\ processes' = <<>>
    /\ registry' = UnregisterAll(registry, processes)
    /\ poolOp' = [op |-> "stop", err |-> "none", held |-> {}]
    /\ UNCHANGED <<poolCfg, desired, portCursor, poolClock, lastD, spawnFailed>>
    /\ UNCHANGED notPool

InitPool ==
    /\ poolCfg \in PoolConfigs
    /\ processes = <<>>
    /\ desired = BoundCapacity(poolCfg.min_runtimes)
    /\ portCursor = BasePort
    /\ registry = <<>>
    /\ poolClock = 0
    /\ poolOp = [op |-> "init", err |-> "none", held |-> {}]
    /\ lastD = None
    /\ spawnFailed = FALSE

\* ---- direct calls on the RuntimeGateway registry ----

NoRegistryCall == [op |-> "none"]

\* register(RuntimeEndpoint(name, protocol, address))
RegisterCall ==
    /\ Len(regLog) < MaxRegistryOps
    /\ \E protocol \in ProtocolArgs \cap {"http", "HTTP", "ws"}, name \in EndpointNames,
          address \in Addresses :
          LET endpoint == RuntimeEndpoint(name, protocol, address, Len(regLog) + 1)
          IN  /\ registry' = RegisterEndpoint(registry, endpoint)
              /\ regLog' = Append(regLog, [op |-> "register", endpoint |-> endpoint])
              /\ regOp' = [op |-> "register", endpoint |-> endpoint]
    /\ UNCHANGED <<poolCfg, processes, desired, portCursor, poolClock, poolOp, lastD,
                   spawnFailed>>
    /\ UNCHANGED notRegistry

\* unregister(protocol, name)
UnregisterCall ==
    /\ Len(regLog) < MaxRegistryOps
    /\ \E protocol \in ProtocolArgs, name \in EndpointNames :
          /\ registry' = UnregisterEndpoint(registry, protocol, name)
          /\ regLog' = Append(regLog, [op |-> "unregister", protocol |-> protocol,
                                       name |-> name])
          /\ regOp' = [op |-> "unregister", protocol |-> protocol, name |-> name]
    /\ UNCHANGED <<poolCfg, processes, desired, portCursor, poolClock, poolOp, lastD,
                   spawnFailed>>
    /\ UNCHANGED notRegistry

\* find(protocol, name)
FindCall ==
    /\ \E protocol \in ProtocolArgs, name \in EndpointNames :
          regOp' = [op |-> "find", protocol |-> protocol, name |-> name,
                    result |-> FindEndpoint(registry, protocol, name)]
    /\ UNCHANGED <<poolVars, regLog>>
    /\ UNCHANGED notRegistry

\* endpoints(protocol)
EndpointsCall ==
    /\ \E protocol \in ProtocolArgs \cup {"None"} :
          regOp' = [op |-> "endpoints", protocol |-> protocol,
                    result |-> EndpointsOf(registry, protocol)]
    /\ UNCHANGED <<poolVars, regLog>>
    /\ UNCHANGED notRegistry

\* snapshot()
SnapshotCall ==
    /\ regOp' = [op |-> "snapshot", result |-> SnapshotOf(registry)]
    /\ UNCHANGED <<poolVars, regLog>>
    /\ UNCHANGED notRegistry

\* What the last read handed to its caller: endpoints for find and endpoints,
\* dicts for snapshot.
GivenByRead ==
    IF regOp.op = "find" THEN regOp.result
    ELSE IF regOp.op = "endpoints" THEN DOMAIN regOp.result
    ELSE IF regOp.op = "snapshot"
    THEN UNION {DOMAIN regOp.result[proto] : proto \in Protocols}
    ELSE {}

\* The caller of the last read changes the metadata of something it was given.
MutateEndpoint ==
    /\ \E given \in GivenByRead :
          /\ registry' = SetMetadata(registry, given)
          /\ regOp' = [op |-> "mutate", name |-> given.name]
    /\ UNCHANGED <<poolCfg, processes, desired, portCursor, poolClock, poolOp, lastD,
                   spawnFailed, regLog>>
    /\ UNCHANGED notRegistry

QuietRegistry == regLog = <<>> /\ regOp = NoRegistryCall

NextRegistry ==
    \/ RegisterCall
    \/ UnregisterCall
    \/ FindCall
    \/ EndpointsCall
    \/ SnapshotCall

\* The pool left unused.
QuietPool ==
    /\ InitPool
    /\ poolCfg = [min_runtimes |-> 0, max_runtimes |-> MaxMaxCfg]

\* ---- Shutdown: DaemonHandle.stop() against the monitor thread ----

\* _pool_monitor: monitor_stop.wait(interval) returns False, a heartbeat is due
MonitorDue ==
    /\ monitorPc = "waiting"
    /\ ~monitorStop
    /\ monitorPc' = "due"
    /\ UNCHANGED <<monitorStop, daemonStopPc, stopProcs, server, serverLog>>
    /\ UNCHANGED poolVars
    /\ UNCHANGED notShutdown

\* _pool_monitor: monitor_pool.heartbeat(), whose exception is printed
MonitorHeartbeat ==
    /\ monitorPc = "due"
    /\ \E adv \in {0, 1} :
          Commit(HeartbeatLocked(PoolState, adv), "heartbeat")
    /\ monitorPc' = "waiting"
    /\ UNCHANGED <<poolCfg, desired, lastD>>
    /\ UNCHANGED <<monitorStop, daemonStopPc, stopProcs, server, serverLog>>
    /\ UNCHANGED notShutdown

\* _pool_monitor: monitor_stop.wait(interval) returns True, the thread ends
MonitorExit ==
    /\ monitorPc = "waiting"
    /\ monitorStop
    /\ monitorPc' = "exited"
    /\ UNCHANGED <<monitorStop, daemonStopPc, stopProcs, server, serverLog>>
    /\ UNCHANGED poolVars
    /\ UNCHANGED notShutdown

\* DaemonHandle.stop lines 55-56: pool_monitor_stop.set()
DaemonStopSetEvent ==
    /\ daemonStopPc = "running"
    /\ monitorStop' = TRUE
    /\ daemonStopPc' = "join"
    /\ UNCHANGED <<monitorPc, stopProcs, server, serverLog>>
    /\ UNCHANGED poolVars
    /\ UNCHANGED notShutdown

\* DaemonHandle.stop lines 57-58: pool_monitor_thread.join(timeout=2.0) returns,
\* the thread ended or not
DaemonStopJoin ==
    /\ daemonStopPc = "join"
    /\ daemonStopPc' = "pool_stop"
    /\ UNCHANGED <<monitorPc, monitorStop, stopProcs, server, serverLog>>
    /\ UNCHANGED poolVars
    /\ UNCHANGED notShutdown

\* RuntimePool.stop lines 92-94, under the lock: procs = list(values), clear()
PoolStopClear ==
    /\ daemonStopPc = "pool_stop"
    /\ stopProcs' = processes
    /\ processes' = <<>>
    /\ daemonStopPc' = "stop_processes"
    /\ poolOp' = [op |-> "stop", err |-> "none", held |-> {}]
    /\ UNCHANGED <<poolCfg, desired, portCursor, registry, poolClock, lastD, spawnFailed>>
    /\ UNCHANGED <<monitorPc, monitorStop, server, serverLog>>
    /\ UNCHANGED notShutdown

\* RuntimePool.stop lines 95-96, outside the lock: _stop_process(proc,
\* unregister=True) for every worker taken; then stop() returns
PoolStopProcesses ==
    /\ daemonStopPc = "stop_processes"
    /\ registry' = UnregisterAll(registry, stopProcs)
    /\ stopProcs' = <<>>
    /\ daemonStopPc' = "returned"
    /\ UNCHANGED <<poolCfg, processes, desired, portCursor, poolClock, poolOp, lastD,
                   spawnFailed>>
    /\ UNCHANGED <<monitorPc, monitorStop, server, serverLog>>
    /\ UNCHANGED notShutdown

\* ---- GatewayServer.start() and stop() (core/gateway_server.py) ----

\* GatewayServer.__init__ lines 52-68: no server, no loop, not running
NewServer == [running |-> FALSE, http_server |-> FALSE, ws_server |-> FALSE,
              ipc_server |-> FALSE, loop |-> FALSE, ipc_file |-> FALSE]

\* The endpoint a transport registers for itself.
GatewayEndpoint(name, protocol) ==
    [name |-> name, protocol |-> protocol, metadata |-> [token_required |-> TRUE]]

\* start(): the loop thread, then _start_http, _start_ws, _start_ipc, each
\* registering its endpoint; _start_ipc returns without a server and without an
\* endpoint when the unix server cannot be created.
GatewayStart ==
    /\ ~server.running
    /\ \E ipc_ok \in BOOLEAN :
          LET http == Register(registry, "http", "gateway-http",
                               GatewayEndpoint("gateway-http", "http"))
              ws == Register(http, "ws", "gateway-ws",
                             GatewayEndpoint("gateway-ws", "ws"))
              ipc == Register(ws, "ipc", "gateway-ipc",
                              GatewayEndpoint("gateway-ipc", "ipc"))
          IN  /\ server' = [running |-> TRUE, http_server |-> TRUE,
                            ws_server |-> TRUE, ipc_server |-> ipc_ok,
                            loop |-> TRUE, ipc_file |-> ipc_ok]
              /\ registry' = IF ipc_ok THEN ipc ELSE ws
              /\ serverLog' = <<"start_loop", "start_http", "start_ws">>
                               \o (IF ipc_ok THEN <<"start_ipc">> ELSE <<>>)
    /\ UNCHANGED <<poolCfg, processes, desired, portCursor, poolClock, poolOp, lastD,
                   spawnFailed>>
    /\ UNCHANGED <<monitorPc, monitorStop, daemonStopPc, stopProcs>>
    /\ UNCHANGED notShutdown

\* stop() lines 94-126, in the order of its statements: the HTTP server is shut
\* down and its thread joined, the WebSocket server closed, the IPC server
\* closed, the loop stopped and its thread joined, the socket file unlinked.
StopSteps(srv) ==
    (IF srv.http_server THEN <<"close_http">> ELSE <<>>)
    \o (IF srv.loop /\ srv.ws_server THEN <<"close_ws">> ELSE <<>>)
    \o (IF srv.loop /\ srv.ipc_server THEN <<"close_ipc">> ELSE <<>>)
    \o (IF srv.loop THEN <<"stop_loop", "join_loop">> ELSE <<>>)
    \o (IF srv.ipc_file THEN <<"unlink_ipc_path">> ELSE <<>>)

\* stop(): returns at once when not running; the registry is not touched.
GatewayStop ==
    /\ IF server.running
       THEN /\ server' = NewServer
            /\ serverLog' = serverLog \o <<"stop">> \o StopSteps(server)
       ELSE UNCHANGED <<server, serverLog>>
    /\ UNCHANGED poolVars
    /\ UNCHANGED <<monitorPc, monitorStop, daemonStopPc, stopProcs>>
    /\ UNCHANGED notShutdown

\* The daemon running: the monitor thread waits, stop() has not been called;
\* the gateway server constructed and not started.
QuietShutdown ==
    /\ monitorPc = "waiting"
    /\ monitorStop = FALSE
    /\ daemonStopPc = "running"
    /\ stopProcs = <<>>
    /\ server = NewServer
    /\ serverLog = <<>>

\* The daemon is running: DaemonHandle.stop() has not begun.
DaemonRunning == daemonStopPc = "running"

\* The pool scaled while the daemon runs, the monitor thread, workers that
\* crash, and DaemonHandle.stop().
NextShutdown ==
    \/ DaemonRunning /\ ScaleTo
    \/ DaemonRunning /\ Crash
    \/ MonitorDue
    \/ MonitorHeartbeat
    \/ MonitorExit
    \/ DaemonStopSetEvent
    \/ DaemonStopJoin
    \/ PoolStopClear
    \/ PoolStopProcesses

\* The gateway server started and stopped over the registry that the pool uses.
NextServer ==
    \/ GatewayStart
    \/ GatewayStop
    \/ ScaleTo
    \/ Heartbeat
    \/ Remove
    \/ StopPool

\* scale_to and heartbeat alone, no worker ever exiting
NextScale == ScaleTo \/ Heartbeat

\* scaling, heartbeats and removals, with workers that may crash
NextPool == ScaleTo \/ Heartbeat \/ Crash \/ Remove

\* every pool call, with workers that may crash
NextPoolCalls == ScaleTo \/ Heartbeat \/ Crash \/ Spawn \/ Remove \/ StopPool

(***************************************************************************)
(* AuthManager and TokenStore (core/auth.py)                               *)
(***************************************************************************)
\* Length in seconds of the rate-limit window of record_usage.
RateWindow == 60

MaxRateLimit == 2     \* the configured default rate limit is drawn from {1, MaxRateLimit}
MaxMinted == 1        \* mint_token is not followed beyond this many generated tokens
MaxAuthNow == 120     \* the Auth Manager's clock stops advancing here
MaxUsageLog == 3      \* record_usage is not followed beyond this many calls
NumCallers == 2       \* threads that call record_usage directly

Callers == 1..NumCallers

\* time.time() at construction, and the amounts by which it advances afterwards:
\* one second short of a window, and exactly one window.
StartTime == RateWindow
ClockSteps == {RateWindow - 1, RateWindow}

\* AuthManager.__init__ arguments: bootstrap_token, default_ttl, rate_limit_per_minute
AuthConfigs == [bootstrap_token : {"", "boot"},
                default_ttl : {0, RateWindow},
                rate_limit_per_minute : {1, MaxRateLimit}]

\* TokenMetadata as the constructor leaves it: never used, window at 0.0 with count 0
TokenMetadata(token, subject, scopes, issued_at, expires_at, admin, rate_limit) ==
    [token |-> token, subject |-> subject, scopes |-> scopes,
     issued_at |-> issued_at, expires_at |-> expires_at, admin |-> admin,
     rate_limit_per_minute |-> rate_limit, last_used_at |-> None,
     window_start |-> 0, window_count |-> 0]

\* TokenMetadata.to_dict
ToDict(meta) ==
    [token |-> meta.token, subject |-> meta.subject, scopes |-> meta.scopes,
     issued_at |-> meta.issued_at, expires_at |-> meta.expires_at,
     admin |-> meta.admin, rate_limit_per_minute |-> meta.rate_limit_per_minute,
     last_used_at |-> meta.last_used_at, window_start |-> meta.window_start,
     window_count |-> meta.window_count]

\* TokenStore.save: the payload holds the serialised form of every record
Save(recs) == [t \in DOMAIN recs |-> ToDict(recs[t])]

\* self._records[token] = metadata
PutRecord(recs, token, metadata) ==
    [t \in DOMAIN recs \cup {token} |-> IF t = token THEN metadata ELSE recs[t]]

\* self._records.pop(token, None)
PopRecord(recs, token) == [t \in DOMAIN recs \ {token} |-> recs[t]]

\* An is_expired that still accepts the token in the second it expires.
IsExpiredAfter(meta, now) == meta.expires_at # None /\ now > meta.expires_at

\* TokenMetadata.is_expired
IsExpired(meta, now) == meta.expires_at # None /\ now >= meta.expires_at

\* mint_token: expires_at from ttl_seconds and the default ttl
ExpiresAt(issued, ttl_seconds) ==
    IF ttl_seconds = None
    THEN (IF authCfg.default_ttl > 0 THEN issued + authCfg.default_ttl ELSE None)
    ELSE IF ttl_seconds <= 0 THEN None ELSE issued + ttl_seconds

\* secrets.token_urlsafe(32): a value never produced before
TokenValue(n) == "tok-" \o ToString(n)

\* The Auth Manager's state as the operators below thread it through one call.
AuthState == [records |-> records, store |-> store, minted |-> minted,
              bootstrap |-> bootstrapToken]

\* mint_token; scopes is the set of the given scope strings, already stripped,
\* of which the empty ones are dropped; rate_limit 0 or None takes the default
MintToken(am, subject, scopes, ttl_seconds, admin, rate_limit, now) ==
    LET token_value == TokenValue(am.minted + 1)
        metadata == TokenMetadata(token_value, subject, scopes \ {""}, now,
                        ExpiresAt(now, ttl_seconds), admin,
                        IF rate_limit = None \/ rate_limit = 0
                        THEN authCfg.rate_limit_per_minute ELSE rate_limit)
        recs == PutRecord(am.records, token_value, metadata)
    IN  [am EXCEPT !.records = recs, !.store = Save(recs), !.minted = @ + 1]

\* A revoke_token that leaves the record in place.
RevokeTokenKeepsRecord(am, token) == am

\* revoke_token
RevokeToken(am, token) ==
    IF token \in DOMAIN am.records
    THEN LET recs == PopRecord(am.records, token)
         IN  [am EXCEPT !.records = recs, !.store = Save(recs)]
    ELSE am

\* `if scope`: the optional scope is given and not the empty string
ScopeGiven(scope) == scope # <<>> /\ scope[1] # ""

\* validate; scope is <<>> for None and <<s>> otherwise; the result is <<>> for
\* None and <<metadata>> otherwise
Validate(recs, token, scope, now) ==
    IF token \notin DOMAIN recs THEN <<>>
    ELSE LET metadata == recs[token]
         IN  IF IsExpired(metadata, now) THEN <<>>
             ELSE IF /\ ScopeGiven(scope)
                     /\ scope[1] \notin metadata.scopes
                     /\ "*" \notin metadata.scopes
                  THEN <<>>
                  ELSE <<metadata>>

\* A limit test that already refuses the call that reaches the limit.
RateLimitedAtLimit(metadata) == metadata.window_count >= metadata.rate_limit_per_minute

\* record_usage line 286
RateLimited(metadata) == metadata.window_count > metadata.rate_limit_per_minute

\* The locked body of record_usage, for the time stamp now read before the lock
\* was taken.  outcome: "absent" (no record, plain return), "ok", or
\* "rate_limit_exceeded" (PermissionError raised before the store is saved).
RecordUsage(am, token, now) ==
    IF token \notin DOMAIN am.records THEN [am |-> am, outcome |-> "absent"]
    ELSE LET metadata == am.records[token]
             m1 == IF now - metadata.window_start >= RateWindow
                   THEN [metadata EXCEPT !.window_start = now, !.window_count = 0]
                   ELSE metadata
             m2 == [m1 EXCEPT !.window_count = @ + 1, !.last_used_at = now]
             recs == PutRecord(am.records, token, m2)
         IN  IF RateLimited(m2)
             THEN [am |-> [am EXCEPT !.records = recs],
                   outcome |-> "rate_limit_exceeded"]
             ELSE [am |-> [am EXCEPT !.records = recs, !.store = Save(recs)],
                   outcome |-> "ok"]

BootstrapScopes == {"admin", "*", "query", "index", "status", "plan", "stream"}

\* ensure_bootstrap_token
EnsureBootstrapToken(am, now) ==
    IF am.bootstrap # "" /\ am.bootstrap \in DOMAIN am.records THEN am
    ELSE [MintToken(am, "bootstrap", BootstrapScopes, 0, TRUE, None, now)
             EXCEPT !.bootstrap = TokenValue(am.minted + 1)]

\* A rotate_bootstrap that mints the replacement without revoking the old token.
RotateBootstrapKeepsOld(am, now) ==
    [MintToken(am, "bootstrap", {"admin", "*"}, 0, TRUE, None, now)
        EXCEPT !.bootstrap = TokenValue(am.minted + 1)]

\* rotate_bootstrap, for a configured bootstrap token
RotateBootstrap(am, now) ==
    [MintToken(RevokeToken(am, am.bootstrap), "bootstrap", {"admin", "*"}, 0, TRUE,
               None, now)
        EXCEPT !.bootstrap = TokenValue(am.minted + 1)]

\* ---- the calls made on one AuthManager ----

ScopeSets == {{"status"}, {"*"}}
TtlArgs == {None, -1, 0, RateWindow}
RateArgs == {None, 0, 1}
\* validate's scope argument: None, "", or a scope name
ScopeArgs == {<<>>, <<"">>, <<"status">>, <<"query">>}
\* token values a caller may present: none, one never issued, and every value
\* issued so far (the configured bootstrap token and those mint_token produced),
\* whether still stored or revoked
PresentedTokens ==
    {"", "unknown"} \cup ({authCfg.bootstrap_token} \ {""})
        \cup {TokenValue(n) : n \in 1..minted}

NoCall == [token |-> "", now |-> None]

\* Publish the Auth Manager state left by a call.
AuthCommit(am, op) ==
    /\ records' = am.records
    /\ store' = am.store
    /\ minted' = am.minted
    /\ bootstrapToken' = am.bootstrap
    /\ authOp' = op

\* mint_token(subject="client", scopes, ttl_seconds, rate_limit_per_minute)
MintTokenCall ==
    /\ minted < MaxMinted
    /\ \E scopes \in ScopeSets, ttl \in TtlArgs, rate \in RateArgs :
          AuthCommit(MintToken(AuthState, "client", scopes, ttl, FALSE, rate, authNow),
                     [op |-> "mint", token |-> TokenValue(minted + 1), ttl |-> ttl])
    /\ UNCHANGED <<authCfg, authNow, usagePc, usageArg, usageLog, backendCalls>>
    /\ UNCHANGED notAuth

\* revoke_token(token)
RevokeTokenCall ==
    /\ \E token \in PresentedTokens :
          AuthCommit(RevokeToken(AuthState, token),
                     [op |-> "revoke", token |-> token,
                      existed |-> token \in DOMAIN records])
    /\ UNCHANGED <<authCfg, authNow, usagePc, usageArg, usageLog, backendCalls>>
    /\ UNCHANGED notAuth

\* validate(token, scope=scope)
ValidateCall ==
    /\ \E token \in PresentedTokens, scope \in ScopeArgs :
          authOp' = [op |-> "validate", token |-> token, scope |-> scope,
                     now |-> authNow,
                     result |-> Validate(records, token, scope, authNow)]
    /\ UNCHANGED <<authCfg, records, store, minted, bootstrapToken, authNow, usagePc,
                   usageArg, usageLog, backendCalls>>
    /\ UNCHANGED notAuth

\* list_tokens(): a new list of the stored records
ListTokens(recs) == {recs[t] : t \in DOMAIN recs}

\* list_tokens()
ListTokensCall ==
    /\ authOp' = [op |-> "list_tokens", result |-> ListTokens(records)]
    /\ UNCHANGED <<authCfg, records, store, minted, bootstrapToken, authNow, usagePc,
                   usageArg, usageLog, backendCalls>>
    /\ UNCHANGED notAuth

\* What the last read handed to its caller.
GivenByAuthRead ==
    IF authOp.op = "validate" THEN {authOp.result[i] : i \in DOMAIN authOp.result}
    ELSE IF authOp.op = "list_tokens" THEN authOp.result
    ELSE {}

\* The caller of a read sets scopes and admin on the TokenMetadata it was given,
\* which is the object stored under its token while that record is there.
SetScopes(recs, given) ==
    [t \in DOMAIN recs |->
        IF t = given.token THEN [recs[t] EXCEPT !.scopes = {"*"}, !.admin = TRUE]
        ELSE recs[t]]

\* The caller of the last read changes fields of a record it was given.
MutateToken ==
    /\ \E given \in GivenByAuthRead :
          /\ records' = SetScopes(records, given)
          /\ authOp' = [op |-> "mutate", token |-> given.token]
    /\ UNCHANGED <<authCfg, store, minted, bootstrapToken, authNow, usagePc,
                   usageArg, usageLog, backendCalls>>
    /\ UNCHANGED notAuth

\* record_usage calls begun, whether finished or not
UsageCalls == BagCardinality(usageLog) + Cardinality({c \in Callers : usagePc[c] = "locked"})

\* One entry of the history of record_usage calls.
UsageEntry(token, now, outcome) ==
    [token |-> token, now |-> now, outcome |-> outcome,
     limit |-> IF token \in DOMAIN records
               THEN records[token].rate_limit_per_minute ELSE None]

\* record_usage line 275: the caller reads time.time(), then waits for the lock
UsageRead(c) ==
    /\ usagePc[c] = "idle"
    /\ UsageCalls < MaxUsageLog
    /\ \E token \in DOMAIN records :
          usageArg' = [usageArg EXCEPT ![c] = [token |-> token, now |-> authNow]]
    /\ usagePc' = [usagePc EXCEPT ![c] = "locked"]
    /\ authOp' = [op |-> "record_usage_enter"]
    /\ UNCHANGED <<authCfg, records, store, minted, bootstrapToken, authNow, usageLog,
                   backendCalls>>
    /\ UNCHANGED notAuth

\* record_usage lines 276-288: the body run under the lock
UsageLocked(c) ==
    /\ usagePc[c] = "locked"
    /\ LET r == RecordUsage(AuthState, usageArg[c].token, usageArg[c].now)
       IN  /\ AuthCommit(r.am, [op |-> "record_usage", token |-> usageArg[c].token,
                                outcome |-> r.outcome])
           /\ usageLog' = usageLog (+) SetToBag({UsageEntry(usageArg[c].token,
                                         usageArg[c].now, r.outcome)})
    /\ usagePc' = [usagePc EXCEPT ![c] = "idle"]
    /\ usageArg' = [usageArg EXCEPT ![c] = NoCall]
    /\ UNCHANGED <<authCfg, authNow, backendCalls>>
    /\ UNCHANGED notAuth

\* ensure_bootstrap_token()
EnsureBootstrapCall ==
    /\ (bootstrapToken = "" \/ bootstrapToken \notin DOMAIN records) => minted < MaxMinted
    /\ LET am == EnsureBootstrapToken(AuthState, authNow)
       IN  AuthCommit(am, [op |-> "ensure_bootstrap", token |-> am.bootstrap])
    /\ UNCHANGED <<authCfg, authNow, usagePc, usageArg, usageLog, backendCalls>>
    /\ UNCHANGED notAuth

\* rotate_bootstrap(): TokenStoreError when no bootstrap token is configured
RotateBootstrapCall ==
    /\ IF bootstrapToken = ""
       THEN AuthCommit(AuthState, [op |-> "rotate_bootstrap", token |-> "",
                                   error |-> "not_configured"])
       ELSE /\ minted < MaxMinted
            /\ LET am == RotateBootstrap(AuthState, authNow)
               IN  AuthCommit(am, [op |-> "rotate_bootstrap", token |-> am.bootstrap,
                                   error |-> "none"])
    /\ UNCHANGED <<authCfg, authNow, usagePc, usageArg, usageLog, backendCalls>>
    /\ UNCHANGED notAuth

\* ---- the daemon started again over the persisted store (start_daemon) ----

MaxStartMinted == 2   \* start_daemon is not followed beyond this many generated tokens

\* TokenMetadata.from_dict
FromDict(data) ==
    [token |-> data.token, subject |-> data.subject, scopes |-> data.scopes,
     issued_at |-> data.issued_at, expires_at |-> data.expires_at,
     admin |-> data.admin, rate_limit_per_minute |-> data.rate_limit_per_minute,
     last_used_at |-> data.last_used_at, window_start |-> data.window_start,
     window_count |-> data.window_count]

\* TokenStore.load: one TokenMetadata per stored entry
Load(payload) == [t \in DOMAIN payload |-> FromDict(payload[t])]

\* AuthManager.__init__ over a store: the records are loaded, and a configured
\* bootstrap token that is not among them is added and saved.  generated is the
\* number of token values generated so far, which no later value repeats.
NewAuthManager(cfg, payload, generated, now) ==
    LET loaded == Load(payload)
        recs == IF cfg.bootstrap_token # "" /\ cfg.bootstrap_token \notin DOMAIN loaded
                THEN PutRecord(loaded, cfg.bootstrap_token,
                         TokenMetadata(cfg.bootstrap_token, "bootstrap", {"admin", "*"},
                             now, None, TRUE, cfg.rate_limit_per_minute))
                ELSE loaded
    IN  [records |-> recs,
         store |-> IF recs = loaded THEN payload ELSE Save(recs),
         minted |-> generated, bootstrap |-> cfg.bootstrap_token]

\* start_daemon lines 223-230: AuthManager.from_config over the persisted store,
\* then ensure_bootstrap_token
StartDaemon ==
    /\ LET fresh == NewAuthManager(authCfg, store, minted, authNow)
       IN  /\ (fresh.bootstrap = "" \/ fresh.bootstrap \notin DOMAIN fresh.records)
                 => minted < MaxStartMinted
           /\ LET am == EnsureBootstrapToken(fresh, authNow)
              IN  AuthCommit(am, [op |-> "start_daemon", token |-> am.bootstrap])
    /\ UNCHANGED <<authCfg, authNow, usagePc, usageArg, usageLog, backendCalls>>
    /\ UNCHANGED notAuth

\* ---- ensure_bootstrap_token called from several threads ----

MaxEnsureCalls == 2   \* each thread makes at most this many ensure_bootstrap_token calls

\* ensure_bootstrap_token lines 309-311: under the lock, return the stored
\* bootstrap token if there is one; otherwise go on to mint, the lock released.
EnsureCheck(c) ==
    /\ ensurePc[c] = "idle"
    /\ Len(ensureTok[c]) < MaxEnsureCalls
    /\ IF bootstrapToken # "" /\ bootstrapToken \in DOMAIN records
       THEN /\ ensureTok' = [ensureTok EXCEPT ![c] = Append(@, bootstrapToken)]
            /\ UNCHANGED ensurePc
       ELSE /\ ensurePc' = [ensurePc EXCEPT ![c] = "mint"]
            /\ UNCHANGED ensureTok
    /\ ensureOverlap' = (ensureOverlap \/ \E d \in Callers \ {c} : ensurePc[d] # "idle")
    /\ authOp' = [op |-> "ensure_bootstrap_enter"]
    /\ UNCHANGED <<authCfg, records, store, minted, bootstrapToken, authNow, usagePc,
                   usageArg, usageLog, backendCalls>>
    /\ UNCHANGED notBoot

\* ensure_bootstrap_token lines 312-317: mint_token, which takes the lock itself
EnsureMint(c) ==
    /\ ensurePc[c] = "mint"
    /\ AuthCommit(MintToken(AuthState, "bootstrap", BootstrapScopes, 0, TRUE, None,
                            authNow),
                  [op |-> "ensure_bootstrap_mint", token |-> TokenValue(minted + 1)])
    /\ ensurePc' = [ensurePc EXCEPT ![c] = "set"]
    /\ ensureTok' = [ensureTok EXCEPT ![c] = Append(@, TokenValue(minted + 1))]
    /\ UNCHANGED <<ensureOverlap, authCfg, authNow, usagePc, usageArg, usageLog,
                   backendCalls>>
    /\ UNCHANGED notBoot

\* ensure_bootstrap_token lines 318-320: under the lock again, remember the
\* minted token as the bootstrap token and return its metadata
EnsureSet(c) ==
    /\ ensurePc[c] = "set"
    /\ bootstrapToken' = ensureTok[c][Len(ensureTok[c])]
    /\ ensurePc' = [ensurePc EXCEPT ![c] = "idle"]
    /\ authOp' = [op |-> "ensure_bootstrap", token |-> bootstrapToken']
    /\ UNCHANGED <<ensureTok, ensureOverlap, authCfg, records, store, minted, authNow,
                   usagePc, usageArg, usageLog, backendCalls>>
    /\ UNCHANGED notBoot

\* No thread has called ensure_bootstrap_token.
QuietBoot ==
    /\ ensurePc = [c \in Callers |-> "idle"]
    /\ ensureTok = [c \in Callers |-> <<>>]
    /\ ensureOverlap = FALSE

\* Wall-clock time passes.
AuthTick ==
    /\ \E step \in ClockSteps :
          /\ authNow + step <= MaxAuthNow
          /\ authNow' = authNow + step
    /\ authOp' = [op |-> "tick"]
    /\ UNCHANGED <<authCfg, records, store, minted, bootstrapToken, usagePc, usageArg,
                   usageLog, backendCalls>>
    /\ UNCHANGED notAuth

(***************************************************************************)
(* GatewayServer HTTP transport (core/gateway_server.py)                   *)
(***************************************************************************)
\* The routes of _build_http_app and the scope each one requires.
Endpoints == {"status", "query", "index", "plan"}
RequiredScope(endpoint) == endpoint

\* One HTTP request: require_scope (token extraction, _authorize_token), then the
\* endpoint.  token is what _extract_token_from_headers returns ("" when no
\* token is presented); body_ok tells whether the required body field is set
\* (/v1/status takes none).
HttpRequest ==
    \E token \in PresentedTokens, endpoint \in Endpoints, body_ok \in BOOLEAN :
       LET metadata == IF token = "" THEN <<>>
                       ELSE Validate(records, token, <<RequiredScope(endpoint)>>, authNow)
           r == RecordUsage(AuthState, token, authNow)
           served == endpoint = "status" \/ body_ok
           code == IF metadata = <<>> THEN 401
                   ELSE IF r.outcome = "rate_limit_exceeded" THEN 429
                   ELSE IF served THEN 200 ELSE 400
       IN  /\ metadata # <<>> => UsageCalls < MaxUsageLog
           /\ AuthCommit(IF metadata = <<>> THEN AuthState ELSE r.am,
                         [op |-> "http", token |-> token, endpoint |-> endpoint,
                          code |-> code])
           /\ usageLog' = IF metadata = <<>> THEN usageLog
                          ELSE usageLog (+) SetToBag({UsageEntry(token, authNow, r.outcome)})
           /\ backendCalls' = IF code = 200 THEN backendCalls + 1 ELSE backendCalls
           /\ UNCHANGED <<authCfg, authNow, usagePc, usageArg>>
           /\ UNCHANGED notAuth

\* AuthManager.__init__ over an empty store: a configured bootstrap token is
\* recorded as a non-expiring admin token and saved
InitAuth ==
    /\ authCfg \in AuthConfigs
    /\ authNow = StartTime
    /\ records = IF authCfg.bootstrap_token = "" THEN <<>>
                 ELSE PutRecord(<<>>, authCfg.bootstrap_token,
                          TokenMetadata(authCfg.bootstrap_token, "bootstrap",
                              {"admin", "*"}, StartTime, None, TRUE,
                              authCfg.rate_limit_per_minute))
    /\ store = Save(records)
    /\ minted = 0
    /\ bootstrapToken = authCfg.bootstrap_token
    /\ usagePc = [c \in Callers |-> "idle"]
    /\ usageArg = [c \in Callers |-> NoCall]
    /\ usageLog = EmptyBag
    /\ authOp = [op |-> "init"]
    /\ backendCalls = 0

\* The gateway's AuthManager as from_config builds it by default: tokens expire
\* after a positive default ttl and the default rate limit is above 1.
InitGateway ==
    /\ InitAuth
    /\ authCfg.default_ttl = RateWindow
    /\ authCfg.rate_limit_per_minute = MaxRateLimit

\* ---- WebSocket and IPC connections (_ws_handler, _ipc_handler) ----

MaxRequests == 3      \* a connection is not followed beyond this many requests

Transports == {"ws", "ipc"}

\* What a client sends after the handshake: text that is not JSON, JSON that is
\* not an object, an action with its required field present or missing, an
\* action whose backend call raises, and an action no handler knows.
Requests == {"invalid_json", "not_object", "ping", "status",
             "query", "query_missing", "query_backend_fails",
             "plan", "plan_missing", "plan_backend_fails", "unknown_action"}

\* Requests for which the handler awaits the orchestrator.
BackendRequests == {"query", "query_backend_fails", "plan", "plan_backend_fails"}

\* The handler raises before it writes: payload.get on a value that is no dict
\* (AttributeError), or the awaited orchestrator call raising.
HandlerRaises(req) == req \in {"not_object", "query_backend_fails", "plan_backend_fails"}

\* _ws_handler lines 299-331: the message sent for one request, <<>> if it raises
WsResponse(req) ==
    IF HandlerRaises(req) THEN <<>>
    ELSE CASE req = "invalid_json" -> <<"error: invalid_json">>
           [] req = "ping" -> <<"pong">>
           [] req = "query" -> <<"query_result">>
           [] req = "query_missing" -> <<"error: query required">>
           [] req = "status" -> <<"status">>
           [] req = "plan" -> <<"plan_result">>
           [] req = "plan_missing" -> <<"error: goal required">>
           [] OTHER -> <<"error: unsupported_action">>

\* _ipc_handler lines 351-383: the line written for one request, <<>> if it raises
IpcResponse(req) ==
    IF HandlerRaises(req) THEN <<>>
    ELSE CASE req = "invalid_json" -> <<"error: invalid_json">>
           [] req = "status" -> <<"status">>
           [] req = "query" -> <<"query_result">>
           [] req = "query_missing" -> <<"error: query required">>
           [] req = "plan" -> <<"plan_result">>
           [] req = "plan_missing" -> <<"error: goal required">>
           [] OTHER -> <<"error: unsupported_action">>

Response(transport, req) ==
    IF transport = "ws" THEN WsResponse(req) ELSE IpcResponse(req)

\* The scope each handler passes to _authorize_token.
HandshakeScope(transport) == IF transport = "ws" THEN <<"stream">> ELSE <<>>

\* No connection has been accepted yet.
NoConn == [transport |-> "none", state |-> "closed", authenticated |-> FALSE,
           ended |-> "none", reads |-> <<>>, writes |-> <<>>]

\* A client connects and presents its token: _ws_handler lines 287-298,
\* _ipc_handler lines 335-350.  A refused client is answered (close code or
\* error line) and the connection is closed; an accepted one is left open.
Connect ==
    /\ conn.state = "closed"
    /\ \E transport \in Transports, token \in PresentedTokens :
          LET metadata == IF token = "" THEN <<>>
                          ELSE Validate(records, token, HandshakeScope(transport), authNow)
              r == RecordUsage(AuthState, token, authNow)
              refusal == IF metadata = <<>> THEN "unauthorized"
                         ELSE IF r.outcome = "rate_limit_exceeded" THEN "rate_limit"
                         ELSE "none"
          IN  /\ metadata # <<>> => UsageCalls < MaxUsageLog
              /\ AuthCommit(IF metadata = <<>> THEN AuthState ELSE r.am,
                            [op |-> "connect", token |-> token, transport |-> transport,
                             refusal |-> refusal])
              /\ usageLog' = IF metadata = <<>> THEN usageLog
                             ELSE usageLog (+) SetToBag({UsageEntry(token, authNow, r.outcome)})
              /\ conn' = [transport |-> transport,
                          state |-> IF refusal = "none" THEN "open" ELSE "closed",
                          authenticated |-> refusal = "none",
                          ended |-> IF refusal = "none" THEN "none" ELSE "refused",
                          reads |-> <<>>, writes |-> <<>>]
    /\ UNCHANGED <<authCfg, authNow, usagePc, usageArg, backendCalls>>
    /\ UNCHANGED notGateway

\* The handler reads one request from the open connection and handles it: it
\* writes the response and waits for the next request, or raises, which ends the
\* handler and closes the connection with nothing written for the request.
Request ==
    /\ conn.state = "open"
    /\ Len(conn.reads) < MaxRequests
    /\ \E req \in Requests :
          LET response == Response(conn.transport, req)
          IN  /\ conn' = [conn EXCEPT !.reads = Append(@, req),
                                      !.writes = @ \o response,
                                      !.state = IF response = <<>> THEN "closed" ELSE "open",
                                      !.ended = IF response = <<>> THEN "handler_error"
                                                ELSE "none"]
              /\ backendCalls' = IF req \in BackendRequests
                                 THEN backendCalls + 1 ELSE backendCalls
    /\ UNCHANGED <<authCfg, records, store, minted, bootstrapToken, authNow, usagePc,
                   usageArg, usageLog, authOp>>
    /\ UNCHANGED notGateway

\* The client closes the connection: the handler's read loop ends.
Disconnect ==
    /\ conn.state = "open"
    /\ conn' = [conn EXCEPT !.state = "closed", !.ended = "client"]
    /\ UNCHANGED authVars
    /\ UNCHANGED notGateway

QuietConn == conn = NoConn

NextConn == Connect \/ Request \/ Disconnect

\* The Auth Manager left unused.
QuietAuth ==
    /\ InitAuth
    /\ authCfg = [bootstrap_token |-> "", default_ttl |-> 0,
                  rate_limit_per_minute |-> MaxRateLimit]

\* The Auth Manager's mutating calls, with concurrent record_usage callers.
NextAuth ==
    \/ MintTokenCall
    \/ RevokeTokenCall
    \/ \E c \in Callers : UsageRead(c)
    \/ \E c \in Callers : UsageLocked(c)
    \/ EnsureBootstrapCall
    \/ RotateBootstrapCall
    \/ AuthTick

\* ensure_bootstrap_token called by concurrent threads, step by step
NextBoot ==
    \/ \E c \in Callers : EnsureCheck(c)
    \/ \E c \in Callers : EnsureMint(c)
    \/ \E c \in Callers : EnsureSet(c)
    \/ AuthTick

\* rotate_bootstrap among ensure_bootstrap_token, revoke_token and validate calls
NextRotate ==
    \/ EnsureBootstrapCall
    \/ RotateBootstrapCall
    \/ RevokeTokenCall
    \/ ValidateCall
    \/ AuthTick

\* the daemon started over and over on one store, among mint_token and revoke_token
NextRestart == StartDaemon \/ MintTokenCall \/ RevokeTokenCall \/ AuthTick

\* validate against tokens that are minted, revoked and left to expire
NextValidate == MintTokenCall \/ RevokeTokenCall \/ ValidateCall \/ AuthTick

\* HTTP requests against tokens that are minted, revoked and left to expire
NextHttp == MintTokenCall \/ RevokeTokenCall \/ HttpRequest \/ AuthTick

(***************************************************************************)
(* SandboxHarness (core/sandbox.py)                                        *)
(***************************************************************************)
MaxExecutes == 1      \* execute is not followed beyond this many started processes
MaxRequired == 2      \* an action requires at most this many permissions
MaxUpdates == 2       \* update_permissions is not followed beyond this many calls

\* The fields of SandboxPermissions.
PermissionFields == {"file_access", "network_access", "calendar_access",
                     "mail_access", "browser_access"}
\* The other attributes getattr finds on a SandboxPermissions object: its methods.
PermissionMethods == {"allows", "as_dict"}
\* Names an action may require: two fields, a method name, and a name that is
\* no attribute of SandboxPermissions.
RequiredNames == {"file_access", "network_access", "as_dict", "shell_access"}

\* The permission sets the harness is given: file and network access either way,
\* the calendar, mail and browser switches left off.
SandboxPermissionSets ==
    {perms \in [PermissionFields -> BOOLEAN] :
        \A f \in PermissionFields \ {"file_access", "network_access"} : ~perms[f]}
DefaultPermissions == [f \in PermissionFields |-> FALSE]

\* SandboxPermissions.allows raises KeyError: getattr found no such attribute
AllowsRaises(name) == name \notin PermissionFields \cup PermissionMethods

\* SandboxPermissions.allows, when it returns: bool(getattr(self, permission)),
\* which for a method is True
Allows(perms, name) == IF name \in PermissionFields THEN perms[name] ELSE TRUE

\* required_permissions tuples of at most n names
Tuples(S, n) == UNION {[1..k -> S] : k \in 0..n}

\* What the action's target does in the child: "returns" and "raises" run a
\* resolvable module:function; "unknown" names a module or function that does
\* not exist; "malformed" has no ':'; "hangs" outlives wall_time_seconds;
\* "dies" ends the child before a message is queued; "calls" is a function that
\* makes one library call (the action's attempt) and returns.
TargetKinds == {"returns", "raises", "unknown", "malformed", "hangs", "dies", "calls"}

\* _invoke_target reaches fn(*args, **kwargs)
TargetInvoked(target) == target \in {"returns", "raises", "hangs", "dies", "calls"}

\* Library calls by which a target connects to the network, opens a file or
\* creates a subprocess.
NetworkCalls == {"socket.socket", "socket.create_connection", "socket.create_server",
                 "_socket.socket"}
FileCalls == {"builtins.open", "io.open", "os.open"}
SubprocessCalls == {"subprocess.Popen", "os.system", "os.fork"}

\* What a "calls" target attempts: the call and, for a file, where the path lies.
NoAttempt == [call |-> "none", path |-> "none"]
Attempts ==
    {[call |-> c, path |-> "none"] : c \in NetworkCalls \cup SubprocessCalls}
    \cup {[call |-> c, path |-> p] : c \in FileCalls, p \in {"inside", "outside"}}

\* The module attributes each guard replaces in the child.
DisableNetwork == {"socket.socket", "socket.create_connection", "socket.create_server"}
RestrictFileAccess == {"builtins.open"}
DisableSubprocessCreation == {"subprocess.Popen"}

\* _apply_limits lines 325-335: the attributes replaced under the configuration
\* payload that execute handed to the child.
ApplyLimits(allow_network, allow_files, allow_subprocesses) ==
    (IF ~allow_network THEN DisableNetwork ELSE {})
    \cup (IF ~allow_files THEN RestrictFileAccess ELSE {})
    \cup (IF ~allow_subprocesses THEN DisableSubprocessCreation ELSE {})

\* The step of _apply_limits that fails in the child, if any: creating or
\* entering the working directory (lines 287-289), merging the environment
\* (291-292), converting a limit of the payload to an integer (294, 299),
\* a setrlimit call (297, 302, 309, 316, 323), lowering the priority (340).
LimitFaults == {"none", "working_dir", "env", "limit_value", "setrlimit", "priority"}

\* _apply_limits raises at that step: the steps before the guards that run
\* outside contextlib.suppress. A failing setrlimit is suppressed and
\* _lower_process_priority catches what it raises.
ApplyLimitsRaises(fault) == fault \in {"working_dir", "env", "limit_value"}

\* _worker_entry lines 242-245: _apply_limits is called inside try/except
\* Exception, so a step that raises ends it there and the child goes on without
\* the guards of lines 325-335.
WorkerGuards(fault, allow_network, allow_files, allow_subprocesses) ==
    IF ApplyLimitsRaises(fault) THEN {}
    ELSE ApplyLimits(allow_network, allow_files, allow_subprocesses)

\* The replaced attribute raises PermissionError: _raise_network_error and
\* _blocked_popen always, _guarded_open for a path outside the working directory.
GuardRaises(patched, attempt) ==
    /\ attempt.call \in patched
    /\ attempt.call \in RestrictFileAccess => attempt.path = "outside"

\* The message of that PermissionError, as it ends the traceback.
GuardMessage(call) ==
    IF call \in DisableNetwork THEN "Network access is disabled in sandbox"
    ELSE IF call \in RestrictFileAccess
         THEN "File system access is restricted inside sandbox"
    ELSE "Subprocess creation is disabled in sandbox"

\* The result message against the buffer of the queue's pipe: queue.put hands
\* the message to a feeder thread that writes it to the pipe, and the child
\* joins that thread before it exits.
MessageSizes == {"fits", "exceeds"}

\* _worker_entry lines 267-289: the child of this target calls queue.put
PutsMessage(target) == target \notin {"hangs", "dies"}

\* process.is_alive() after process.join(timeout=wall_time_seconds). execute
\* reads the queue only after the join, so a child whose message exceeds the
\* pipe's buffer is still writing it when the wait ends.
AliveAfterJoin(action) ==
    \/ action.target = "hangs"
    \/ PutsMessage(action.target) /\ action.message = "exceeds"

\* The child when execute returns, without the kill of line 170.
ChildLeftRunning(action) ==
    IF AliveAfterJoin(action) THEN "alive" ELSE "exited"

\* The child when execute returns: killed and joined if it outlived the wait.
ChildAtReturn(action) ==
    IF AliveAfterJoin(action) THEN "killed" ELSE "exited"

SandboxResult(success, value, timed_out, error) ==
    [success |-> success, value |-> value, timed_out |-> timed_out, error |-> error]

\* An execute that reports the failure of the target without the message's
\* error text.
ResultOfWithoutError(action) ==
    CASE AliveAfterJoin(action) ->
            SandboxResult(FALSE, "none", TRUE, "Timed out waiting for sandbox action")
      [] action.target = "dies" ->
            SandboxResult(FALSE, "none", FALSE, "Sandbox process exited without result")
      [] action.target = "returns" ->
            SandboxResult(TRUE, "result", FALSE, "none")
      [] OTHER ->
            SandboxResult(FALSE, "none", FALSE, "none")

\* execute lines 161-230: the result built once the child was started
ResultOf(action) ==
    CASE AliveAfterJoin(action) ->
            SandboxResult(FALSE, "none", TRUE, "Timed out waiting for sandbox action")
      [] action.target = "dies" ->
            SandboxResult(FALSE, "none", FALSE, "Sandbox process exited without result")
      [] action.target = "returns" ->
            SandboxResult(TRUE, "result", FALSE, "none")
      [] OTHER ->
            SandboxResult(FALSE, "none", FALSE, "traceback")

\* The result of an action whose child ran under the replaced attributes.
ExecuteResult(action, patched) ==
    IF action.target = "calls" /\ ~AliveAfterJoin(action)
    THEN IF GuardRaises(patched, action.attempt)
         THEN SandboxResult(FALSE, "none", FALSE, GuardMessage(action.attempt.call))
         ELSE SandboxResult(TRUE, "result", FALSE, "none")
    ELSE ResultOf(action)

\* execute line 126: the required permissions that allows() reports as disabled
Denied(perms, required) ==
    {required[i] : i \in {j \in 1..Len(required) : ~Allows(perms, required[j])}}

\* How execute(action) ends: with the exception it raises, or "SandboxResult".
\* The list comprehension of line 126 calls allows() on every required name, so
\* one unknown name raises KeyError whatever the other names are; arguments that
\* cannot be pickled make process.start() raise before a child exists.
ExecuteOutcome(perms, action) ==
    IF \E i \in 1..Len(action.required_permissions) :
          AllowsRaises(action.required_permissions[i])
    THEN "KeyError"
    ELSE IF Denied(perms, action.required_permissions) # {} THEN "PermissionError"
    ELSE IF ~action.picklable THEN "PicklingError"
    ELSE "SandboxResult"

\* The library calls made in a child where a step of _apply_limits fails: one
\* that each guard replaces.
FaultAttempts ==
    {[call |-> "socket.socket", path |-> "none"],
     [call |-> "builtins.open", path |-> "outside"],
     [call |-> "subprocess.Popen", path |-> "none"]}

\* The actions handed to execute: every target that makes no library call with
\* every tuple of required permissions, picklable arguments or not; and the
\* targets that make one library call, requiring nothing or the matching switch.
\* Their result messages fit the pipe's buffer; the targets that return or
\* raise are also run with a message that exceeds it, and the targets that make
\* a library call also in a child where a step of _apply_limits fails.
SandboxActions ==
    {[target |-> target, required_permissions |-> required,
      picklable |-> picklable, attempt |-> NoAttempt, message |-> "fits",
      fault |-> "none"] :
        target \in TargetKinds \ {"calls"},
        required \in Tuples(RequiredNames, MaxRequired),
        picklable \in BOOLEAN}
    \cup
    {[target |-> "calls", required_permissions |-> required,
      picklable |-> TRUE, attempt |-> attempt, message |-> "fits",
      fault |-> "none"] :
        required \in {<<>>, <<"file_access">>, <<"network_access">>},
        attempt \in Attempts}
    \cup
    {[target |-> target, required_permissions |-> <<>>,
      picklable |-> TRUE, attempt |-> NoAttempt, message |-> message,
      fault |-> "none"] :
        target \in {"returns", "raises"},
        message \in MessageSizes \ {"fits"}}
    \cup
    {[target |-> "calls", required_permissions |-> <<>>,
      picklable |-> TRUE, attempt |-> attempt, message |-> "fits",
      fault |-> fault] :
        attempt \in FaultAttempts,
        fault \in LimitFaults \ {"none"}}

\* SandboxHarness.execute(action)
Execute ==
    \E action \in SandboxActions :
       LET target == action.target
           outcome == ExecuteOutcome(permissions, action)
           started == outcome = "SandboxResult"
           patched == WorkerGuards(action.fault, allowNetwork,
                                   permissions.file_access, allowSubprocesses)
       IN  /\ started => procsStarted < MaxExecutes
           /\ sbOp' = [op |-> "execute", action |-> action, outcome |-> outcome,
                       result |-> IF started THEN <<ExecuteResult(action, patched)>>
                                  ELSE <<>>,
                       child |-> IF started THEN ChildAtReturn(action) ELSE "none",
                       guards |-> IF started THEN patched ELSE {},
                       allow_network |-> allowNetwork,
                       allow_files |-> permissions.file_access,
                       allow_subprocesses |-> allowSubprocesses]
           /\ procsStarted' = IF started THEN procsStarted + 1 ELSE procsStarted
           /\ targetCalls' = IF started /\ TargetInvoked(target)
                             THEN targetCalls + 1 ELSE targetCalls
           /\ UNCHANGED <<permissions, allowNetwork, allowSubprocesses>>
           /\ UNCHANGED <<execCall, updCall, published>>
           /\ UNCHANGED notSandbox

\* SandboxHarness.update_permissions(permissions)
UpdatePermissions ==
    /\ \E perms \in SandboxPermissionSets :
          /\ permissions' = perms
          /\ allowNetwork' = perms.network_access
          /\ published' = <<perms>>
    /\ sbOp' = [op |-> "update_permissions"]
    /\ UNCHANGED <<allowSubprocesses, procsStarted, targetCalls>>
    /\ UNCHANGED <<execCall, updCall>>
    /\ UNCHANGED notSandbox

\* No execute() and no update_permissions() call is in progress.
NoExecute == [pc |-> "idle"]
NoUpdate == [pc |-> "idle"]

\* The actions run while the permissions are updated: a network call or a file
\* opened, requiring nothing or one of the two switches.
SnapshotActions ==
    {action \in SandboxActions :
        /\ action.target = "calls"
        /\ action.fault = "none"
        /\ action.attempt.call \in {"socket.socket", "builtins.open"}}

\* execute line 126: the permission check, which reads self.permissions
ExecCheck ==
    /\ execCall = NoExecute
    /\ procsStarted < MaxExecutes
    /\ \E action \in SnapshotActions :
          IF Denied(permissions, action.required_permissions) # {}
          THEN /\ sbOp' = [op |-> "execute", action |-> action,
                           outcome |-> "PermissionError", result |-> <<>>,
                           child |-> "none", guards |-> {},
                           allow_network |-> allowNetwork,
                           allow_files |-> permissions.file_access,
                           allow_subprocesses |-> allowSubprocesses]
               /\ UNCHANGED execCall
          ELSE /\ execCall' = [pc |-> "checked", action |-> action,
                               checked |-> permissions]
               /\ UNCHANGED sbOp
    /\ UNCHANGED <<permissions, allowNetwork, allowSubprocesses, procsStarted,
                   targetCalls, updCall, published>>
    /\ UNCHANGED notSandbox

\* execute lines 148-149: the configuration payload reads
\* self.config.allow_subprocesses and self.config.allow_network
ExecReadConfig ==
    /\ execCall.pc = "checked"
    /\ execCall' = [pc |-> "config", action |-> execCall.action,
                    checked |-> execCall.checked,
                    allow_subprocesses |-> allowSubprocesses,
                    allow_network |-> allowNetwork]
    /\ UNCHANGED <<permissions, allowNetwork, allowSubprocesses, sbOp, procsStarted,
                   targetCalls, updCall, published>>
    /\ UNCHANGED notSandbox

\* execute line 150: the payload reads self.permissions.file_access
ExecReadPermissions ==
    /\ execCall.pc = "config"
    /\ execCall' = [pc |-> "payload", action |-> execCall.action,
                    checked |-> execCall.checked,
                    allow_subprocesses |-> execCall.allow_subprocesses,
                    allow_network |-> execCall.allow_network,
                    allow_files |-> permissions.file_access]
    /\ UNCHANGED <<permissions, allowNetwork, allowSubprocesses, sbOp, procsStarted,
                   targetCalls, updCall, published>>
    /\ UNCHANGED notSandbox

\* execute lines 161-230: the child is started with the payload, waited for, and
\* its result returned
ExecSpawn ==
    /\ execCall.pc = "payload"
    /\ LET action == execCall.action
           patched == WorkerGuards(action.fault, execCall.allow_network,
                                   execCall.allow_files,
                                   execCall.allow_subprocesses)
       IN  /\ sbOp' = [op |-> "execute", action |-> action,
                       outcome |-> "SandboxResult",
                       result |-> <<ExecuteResult(action, patched)>>,
                       child |-> ChildAtReturn(action),
                       guards |-> patched,
                       allow_network |-> execCall.allow_network,
                       allow_files |-> execCall.allow_files,
                       allow_subprocesses |-> execCall.allow_subprocesses]
           /\ targetCalls' = IF TargetInvoked(action.target)
                             THEN targetCalls + 1 ELSE targetCalls
    /\ procsStarted' = procsStarted + 1
    /\ execCall' = [pc |-> "returned", action |-> execCall.action,
                    checked |-> execCall.checked,
                    allow_subprocesses |-> execCall.allow_subprocesses,
                    allow_network |-> execCall.allow_network,
                    allow_files |-> execCall.allow_files]
    /\ UNCHANGED <<permissions, allowNetwork, allowSubprocesses, updCall, published>>
    /\ UNCHANGED notSandbox

\* update_permissions line 233: self.permissions = permissions
UpdSetPermissions ==
    /\ updCall = NoUpdate
    /\ execCall # NoExecute => Len(published) <= MaxUpdates
    /\ \E perms \in SandboxPermissionSets :
          /\ permissions' = perms
          /\ updCall' = [pc |-> "published", permissions |-> perms]
          /\ published' = IF execCall = NoExecute THEN <<permissions, perms>>
                          ELSE Append(published, perms)
    /\ UNCHANGED <<allowNetwork, allowSubprocesses, sbOp, procsStarted, targetCalls,
                   execCall>>
    /\ UNCHANGED notSandbox

\* update_permissions line 234: self.config.allow_network = permissions.network_access
UpdSetAllowNetwork ==
    /\ updCall # NoUpdate
    /\ allowNetwork' = updCall.permissions.network_access
    /\ updCall' = NoUpdate
    /\ published' = IF execCall = NoExecute THEN <<permissions>> ELSE published
    /\ UNCHANGED <<permissions, allowSubprocesses, sbOp, procsStarted, targetCalls,
                   execCall>>
    /\ UNCHANGED notSandbox

\* SandboxHarness.__init__ with the given permissions and config.allow_network
InitSandbox ==
    /\ permissions \in SandboxPermissionSets
    /\ allowNetwork \in BOOLEAN
    /\ allowSubprocesses \in BOOLEAN
    /\ sbOp = [op |-> "init"]
    /\ procsStarted = 0
    /\ targetCalls = 0
    /\ execCall = NoExecute
    /\ updCall = NoUpdate
    /\ published = <<permissions>>

\* The sandbox left unused.
QuietSandbox ==
    /\ InitSandbox
    /\ permissions = DefaultPermissions
    /\ allowNetwork = FALSE
    /\ allowSubprocesses = FALSE

NextSandbox == Execute \/ UpdatePermissions

\* One thread in execute(), another in update_permissions().
NextSnapshot ==
    \/ ExecCheck
    \/ ExecReadConfig
    \/ ExecReadPermissions
    \/ ExecSpawn
    \/ UpdSetPermissions
    \/ UpdSetAllowNetwork

Init == InitSup /\ InitPool /\ InitAuth /\ InitSandbox /\ QuietBoot /\ QuietConn /\ QuietProbe /\ QuietRegistry /\ QuietShutdown

\* Start of a run in which only the supervisor acts.
InitSupervisor == InitSup /\ QuietPool /\ QuietAuth /\ QuietSandbox /\ QuietConn /\ QuietBoot /\ QuietProbe /\ QuietRegistry /\ QuietShutdown

\* Start of a run of run() alone, under the wider configurations.
InitRun == supCfg \in BackoffConfigs /\ SupStart /\ QuietPool /\ QuietAuth /\ QuietSandbox /\ QuietConn /\ QuietBoot /\ QuietProbe /\ QuietRegistry /\ QuietShutdown

\* Start of a run of the supervisor whose health endpoint is probed.
InitProbed == supCfg \in HealthConfigs /\ SupStart /\ QuietPool /\ QuietAuth /\ QuietSandbox /\ QuietConn /\ QuietBoot /\ QuietProbe /\ QuietRegistry /\ QuietShutdown

\* Start of a run in which only the pool acts.
InitScale == QuietSup /\ InitPool /\ QuietAuth /\ QuietSandbox /\ QuietConn /\ QuietBoot /\ QuietProbe /\ QuietRegistry /\ QuietShutdown

\* Start of a run in which only the registry is called.
InitRegistry == QuietSup /\ QuietPool /\ QuietAuth /\ QuietSandbox /\ QuietConn /\ QuietBoot /\ QuietProbe /\ QuietRegistry /\ QuietShutdown

\* Start of a run in which a caller reads the registry or the Auth Manager.
InitReads == QuietSup /\ QuietPool /\ InitGateway /\ QuietSandbox /\ QuietConn /\ QuietBoot /\ QuietProbe /\ QuietRegistry /\ QuietShutdown

\* Start of a run in which only the pool acts, under a configuration with a
\* capacity limit and no minimum.
InitCapped ==
    /\ InitScale
    /\ poolCfg.min_runtimes = 0
    /\ poolCfg.max_runtimes = MaxMaxCfg

\* Start of a run in which only the Auth Manager acts.
InitManager == QuietSup /\ QuietPool /\ InitAuth /\ QuietSandbox /\ QuietConn /\ QuietBoot /\ QuietProbe /\ QuietRegistry /\ QuietShutdown

\* Start of a run in which only the gateway's HTTP transport acts.
InitHttp == QuietSup /\ QuietPool /\ InitGateway /\ QuietSandbox /\ QuietConn /\ QuietBoot /\ QuietProbe /\ QuietRegistry /\ QuietShutdown

\* Start of a run in which only the gateway's WebSocket and IPC transports act.
InitConn == QuietSup /\ QuietPool /\ InitGateway /\ QuietSandbox /\ QuietConn /\ QuietBoot /\ QuietProbe /\ QuietRegistry /\ QuietShutdown

\* Start of a run in which only the sandbox harness acts.
InitHarness == QuietSup /\ QuietPool /\ QuietAuth /\ InitSandbox /\ QuietConn /\ QuietBoot /\ QuietProbe /\ QuietRegistry /\ QuietShutdown

\* The supervisor alone: run(), stop() and the supervised child.
SpecSup == InitSupervisor /\ [][NextSup]_vars

\* run() alone, never stopped.
SpecRun == InitRun /\ [][NextRun]_vars

\* The supervisor and its health endpoint.
SpecHealth == InitProbed /\ [][NextHealth]_vars

\* A run calls the registry or the Auth Manager, which share no state.
AuthUntouched == authOp.op = "init"
RegistryUntouched == regOp = NoRegistryCall

\* Callers that read the registry or the Auth Manager and change what they get.
NextReads ==
    \/ AuthUntouched /\ RegisterCall
    \/ AuthUntouched /\ UnregisterCall
    \/ AuthUntouched /\ FindCall
    \/ AuthUntouched /\ EndpointsCall
    \/ AuthUntouched /\ SnapshotCall
    \/ AuthUntouched /\ MutateEndpoint
    \/ RegistryUntouched /\ MintTokenCall
    \/ RegistryUntouched /\ RevokeTokenCall
    \/ RegistryUntouched /\ ValidateCall
    \/ RegistryUntouched /\ ListTokensCall
    \/ RegistryUntouched /\ MutateToken

\* Reads of the registry and of the Auth Manager, and callers changing the results.
SpecReads == InitReads /\ [][NextReads]_vars

\* The registry called directly.
SpecRegistry == InitRegistry /\ [][NextRegistry]_vars

\* The pool driven by scale_to and heartbeat only.
SpecScale == InitScale /\ [][NextScale]_vars

\* The pool under scale_to, heartbeat and remove, with crashing workers.
SpecPool == InitScale /\ [][NextPool]_vars

\* The gateway server and the pool over one registry.
SpecServer == InitScale /\ [][NextServer]_vars

\* The pool of a daemon that is stopped while its monitor thread runs.
SpecShutdown == InitScale /\ [][NextShutdown]_vars

\* The pool under all of its calls: spawn, remove, scale_to, heartbeat, stop.
SpecPoolCalls == InitCapped /\ [][NextPoolCalls]_vars

\* One AuthManager with its callers.
SpecAuth == InitManager /\ [][NextAuth]_vars

\* ensure_bootstrap_token called by several threads of one AuthManager.
SpecBoot == InitManager /\ [][NextBoot]_vars

\* The bootstrap token of one AuthManager: ensured, rotated, revoked.
SpecRotate == InitManager /\ [][NextRotate]_vars

\* The daemon restarted over one persisted token store.
SpecRestart == InitManager /\ [][NextRestart]_vars

\* validate on one AuthManager.
SpecValidate == InitManager /\ [][NextValidate]_vars

\* The gateway's HTTP transport over one AuthManager.
SpecHttp == InitHttp /\ [][NextHttp]_vars

\* One WebSocket or IPC connection at a time over one AuthManager.
SpecConn == InitConn /\ [][NextConn]_vars

\* One SandboxHarness: execute and update_permissions.
SpecSandbox == InitHarness /\ [][NextSandbox]_vars

\* The harness as the daemon builds it: config.allow_network taken from the
\* permissions' network_access.
InitPublished == InitHarness /\ allowNetwork = permissions.network_access

\* execute() while the permissions are updated.
SpecSnapshot == InitPublished /\ [][NextSnapshot]_vars

(***************************************************************************)
(* Claims                                                                  *)
(***************************************************************************)
AllExitsFail == exits # <<>> /\ \A i \in 1..Len(exits) : exits[i] = 1

\* Every registered restart lies inside one window_seconds window that is still open.
ExitsInOneWindow ==
    /\ supCfg.window_seconds > 0
    /\ firstExitAt # None
    /\ supClock - firstExitAt <= supCfg.window_seconds

\* C1: for a child that exits with code 1 on every launch, all exits inside one
\* window and no stop request, run() makes max_restarts + 1 launches in total
\* (max_restarts re-launches after the first) and then returns 1.
C1_LaunchesMaxRestartsPlusOne ==
    (supPc = "done" /\ ~stopEvent /\ AllExitsFail /\ ExitsInOneWindow)
        => (launches = supCfg.max_restarts + 1 /\ supRet = 1)

\* C2: once stop() has been requested the supervisor launches no further child.
C2_NoLaunchAfterStop == [][stopEvent => launches' = launches]_vars

ValidPoolCfg ==
    /\ 0 <= poolCfg.min_runtimes
    /\ poolCfg.max_runtimes = 0 \/ poolCfg.min_runtimes <= poolCfg.max_runtimes

\* max(min, min(max or infinity, d))
ExpectedWorkers(d) ==
    IF poolCfg.max_runtimes > 0
    THEN Max(poolCfg.min_runtimes, Min(poolCfg.max_runtimes, d))
    ELSE Max(poolCfg.min_runtimes, d)

AllAlive == \A i \in 1..Len(processes) : processes[i].alive

\* C3: with 0 <= min <= max (max = 0: unbounded), after any sequence of scale_to(d)
\* and heartbeat() calls without a crash or a failed spawn, the pool holds
\* max(min, min(max or infinity, d)) workers for the latest d, all alive.
C3_WorkersMatchDesired ==
    (lastD # None /\ ValidPoolCfg /\ ~spawnFailed)
        => (Len(processes) = ExpectedWorkers(lastD) /\ AllAlive)

\* C3 witness: scale_to(3) on a pool capped at 2, shrunk and regrown before.
C3_Witness ==
    /\ lastD = 3 /\ ~spawnFailed /\ poolCfg.max_runtimes = 2 /\ poolCfg.min_runtimes = 1
    /\ Len(processes) = 2 /\ poolClock >= 2 /\ poolOp.op = "heartbeat"

RestartedBy(w, procs, reg) ==
    /\ \E j \in 1..Len(procs) :
          /\ procs[j].name = w.name
          /\ procs[j].alive
          /\ procs[j].port = w.port
          /\ procs[j].restarts = w.restarts + 1
    /\ \E e \in Find(reg, "http", w.name) :
          /\ e.port = w.port
          /\ "restarts" \in DOMAIN e.metadata
          /\ e.metadata.restarts = w.restarts + 1

\* C4: a worker (n, p, r) that has exited is, after the next heartbeat(), a live
\* worker named n on port p with restarts = r + 1, and the registry's http
\* endpoint n points at port p and reports restarts = r + 1.
C4_HeartbeatRestartsCrashed ==
    [][poolOp'.op = "heartbeat"
         => \A i \in 1..Len(processes) :
               ~processes[i].alive => RestartedBy(processes[i], processes', registry')]_vars

\* C4 on the heartbeats that return without raising (not the claim: a check of the
\* restart path itself).
HeartbeatThatReturnsRestarts ==
    [][(poolOp'.op = "heartbeat" /\ poolOp'.err = "none")
         => \A i \in 1..Len(processes) :
               ~processes[i].alive => RestartedBy(processes[i], processes', registry')]_vars

\* ---- record_usage, validate and the HTTP transport ----

\* No record_usage call is between reading the clock and its locked body.
Quiescent == \A c \in Callers : usagePc[c] = "idle"

\* The logged calls of token t that found its record.
Counted(t) == {e \in BagToSet(usageLog) : e.token = t /\ e.outcome # "absent"}

RECURSIVE Copies(_)
\* Number of logged calls described by the entries of S.
Copies(S) ==
    IF S = {} THEN 0
    ELSE LET e == CHOOSE x \in S : TRUE
         IN  CopiesIn(e, usageLog) + Copies(S \ {e})

RECURSIVE WindowStarts(_, _)
\* The window starts the claim defines for calls made at the times in stamps,
\* the previous window having started at last: the first call made 60 s or more
\* after a window's start opens the next window.
WindowStarts(stamps, last) ==
    LET later == {n \in stamps : n - last >= RateWindow}
    IN  IF later = {} THEN {}
        ELSE LET o == CHOOSE n \in later : \A m \in later : n <= m
             IN  {o} \cup WindowStarts(stamps, o)

\* The calls of token t made inside the window that starts at o.
CallsInWindow(t, o) == {e \in Counted(t) : o <= e.now /\ e.now - o < RateWindow}

\* In every window of every token, the successful calls number min(L, calls made).
FirstLSucceed ==
    \A t \in {e.token : e \in BagToSet(usageLog)} :
       \A o \in WindowStarts({e.now : e \in Counted(t)}, 0) :
          LET calls == CallsInWindow(t, o)
          IN  \A e \in calls :
                 Copies({x \in calls : x.outcome = "ok"}) = Min(e.limit, Copies(calls))

\* C5: among the record_usage calls made inside one 60-second window, under any
\* interleaving of concurrent callers, exactly the first L succeed and the later
\* ones fail with rate_limit_exceeded; a call made 60 s or more after the window
\* start opens a new window and succeeds.  Checked once every call has returned.
C5_FirstLSucceedPerWindow == Quiescent => FirstLSucceed

\* What C6 expects of validate(token, scope) called at time now, given which
\* scope arguments count as "no scope asked".
ValidateExpected(token, scope, now, unscoped) ==
    IF /\ token \in DOMAIN records
       /\ (records[token].expires_at = None \/ now < records[token].expires_at)
       /\ \/ scope \in unscoped
          \/ scope[1] \in records[token].scopes
          \/ "*" \in records[token].scopes
    THEN <<records[token]>>
    ELSE <<>>

\* C6 as stated: validate(v, s) returns the record iff v is a stored token, the
\* time is strictly before its expires_at (or it has none), and s is absent,
\* s is in scopes, or "*" is in scopes; otherwise none.
C6_ValidateAsStated ==
    authOp.op = "validate"
        => authOp.result = ValidateExpected(authOp.token, authOp.scope, authOp.now, {<<>>})

\* C6 amended: as C6, with an empty scope string treated like an absent scope.
C6_ValidateEmptyScopeAsAbsent ==
    authOp.op = "validate"
        => authOp.result = ValidateExpected(authOp.token, authOp.scope, authOp.now,
                                            {<<>>, <<"">>})

\* C6 witness: validate(v, "") on a live token without the wildcard returned it.
C6_Witness ==
    /\ authOp.op = "validate"
    /\ authOp.scope = <<"">>
    /\ authOp.result # <<>>
    /\ "*" \notin authOp.result[1].scopes
    /\ authOp.result[1].expires_at # None
    /\ authOp.now > authOp.result[1].issued_at

\* The request's token is missing, unknown, revoked, expired or lacks the scope.
Unauthorized(token, endpoint) ==
    \/ token = ""
    \/ token \notin DOMAIN records
    \/ records[token].expires_at # None /\ authNow >= records[token].expires_at
    \/ endpoint \notin records[token].scopes /\ "*" \notin records[token].scopes

\* The token's count in the window the request falls in, before the request.
CountBefore(token) ==
    IF authNow - records[token].window_start >= RateWindow THEN 0
    ELSE records[token].window_count

HttpContract(token, endpoint) ==
    IF Unauthorized(token, endpoint)
    THEN /\ authOp'.code = 401
         /\ backendCalls' = backendCalls
         /\ records' = records
         /\ usageLog' = usageLog
    ELSE /\ records'[token].window_count = CountBefore(token) + 1
         /\ BagCardinality(usageLog') = BagCardinality(usageLog) + 1
         /\ IF records'[token].window_count > records[token].rate_limit_per_minute
            THEN authOp'.code = 429 /\ backendCalls' = backendCalls
            ELSE authOp'.code # 429
         /\ endpoint = "status" /\ authOp'.code # 429
               => authOp'.code = 200 /\ backendCalls' = backendCalls + 1

\* C7: an HTTP request whose token is missing, unknown, revoked, expired or lacks
\* the operation's scope gets 401 and touches neither the backend nor the usage
\* counter; any other request increments the usage counter exactly once and gets
\* 429 without a backend call iff the window count then exceeds the limit.  Hence
\* in one window the first L requests of a token pass and the next one gets 429.
C7_HttpAuthAndRateLimit ==
    /\ [][authOp'.op = "http" => HttpContract(authOp'.token, authOp'.endpoint)]_vars
    /\ []FirstLSucceed

\* C7 witness: L status requests served in one window, then a 429.
C7_Witness ==
    /\ authOp.op = "http"
    /\ authOp.code = 429
    /\ backendCalls = MaxRateLimit
    /\ \E e \in BagToSet(usageLog) :
          /\ e.outcome = "ok" /\ e.limit = MaxRateLimit
          /\ CopiesIn(e, usageLog) = MaxRateLimit
          /\ CopiesIn([e EXCEPT !.outcome = "rate_limit_exceeded"], usageLog) = 1

\* C8: after every Auth Manager operation (mint, revoke, record_usage whether it
\* succeeds or fails, ensure_bootstrap, rotate_bootstrap) the token store holds
\* the in-memory token map, window counters and last_used_at included.
C8_StoreEqualsRecords == store = Save(records)

\* ---- SandboxHarness.execute ----

\* C9: execute never raises; for every action (a required permission disabled or
\* not recognised, an unknown or malformed target, a target that raises) the
\* caller receives a SandboxResult.
C9_ExecuteNeverRaises ==
    sbOp.op = "execute" => (sbOp.outcome = "SandboxResult" /\ sbOp.result # <<>>)

\* The action requires a permission that the current permission set has disabled.
RequiresDisabled(action) ==
    \E i \in 1..Len(action.required_permissions) :
       /\ action.required_permissions[i] \in PermissionFields
       /\ ~permissions[action.required_permissions[i]]

\* C10: execute(action) with a required permission that is disabled is refused
\* with a permission error before any child is spawned: no process is started
\* and the target is never invoked.
C10_DisabledPermissionRefused ==
    [][(sbOp'.op = "execute" /\ RequiresDisabled(sbOp'.action))
          => /\ sbOp'.outcome = "PermissionError"
             /\ procsStarted' = procsStarted
             /\ targetCalls' = targetCalls]_vars

\* C10 without the kind of refusal: whatever exception refuses the action, no
\* process is started and the target is not invoked (not the claim: a check of
\* the order of the permission test and the spawn).
DisabledPermissionNeverSpawns ==
    [][(sbOp'.op = "execute" /\ RequiresDisabled(sbOp'.action))
          => /\ sbOp'.outcome \in {"PermissionError", "KeyError"}
             /\ procsStarted' = procsStarted
             /\ targetCalls' = targetCalls]_vars

\* execute started a child for the action and returned its result.
Executed == sbOp.op = "execute" /\ sbOp.outcome = "SandboxResult"

\* C11: if the target has not finished when wall_time_seconds elapses, execute
\* returns success=false, timed_out=true, value=none with the error "Timed out
\* waiting for sandbox action", and the child has been killed by then.
C11_TimeoutKillsChild ==
    (Executed /\ sbOp.action.target = "hangs")
        => /\ sbOp.result =
                <<SandboxResult(FALSE, "none", TRUE, "Timed out waiting for sandbox action")>>
           /\ sbOp.child = "killed"

C11_Witness ==
    /\ Executed
    /\ sbOp.action.target = "hangs"
    /\ sbOp.result[1].timed_out
    /\ sbOp.child = "killed"
    /\ procsStarted = 1

\* A target whose call went through one of the given library calls was executed.
Attempted(calls) == Executed /\ sbOp.action.target = "calls"
                             /\ sbOp.action.attempt.call \in calls

\* C12: with allow_network=false a target that attempts a network connection
\* yields success=false with an error containing "Network access is disabled";
\* with file access disabled a target that opens a path outside working_dir
\* fails and one that opens a path inside it succeeds; with
\* allow_subprocesses=false a target that creates a subprocess fails.
C12_IsolationEnforced ==
    /\ (Attempted(NetworkCalls) /\ ~allowNetwork)
          => /\ ~sbOp.result[1].success
             /\ sbOp.result[1].error = "Network access is disabled in sandbox"
    /\ (Attempted(FileCalls) /\ ~permissions.file_access)
          => (sbOp.result[1].success <=> sbOp.action.attempt.path = "inside")
    /\ (Attempted(SubprocessCalls) /\ ~allowSubprocesses)
          => ~sbOp.result[1].success

\* The same in a child whose _apply_limits reached the guards.
AttemptedGuarded(calls) ==
    Attempted(calls) /\ ~ApplyLimitsRaises(sbOp.action.fault)

\* C12 for the calls the guards replace (not the claim): socket.socket,
\* socket.create_connection, socket.create_server, the builtin open and
\* subprocess.Popen are refused as stated when _apply_limits reached the guards.
ReplacedCallsRefused ==
    /\ (AttemptedGuarded(DisableNetwork) /\ ~allowNetwork)
          => /\ ~sbOp.result[1].success
             /\ sbOp.result[1].error = "Network access is disabled in sandbox"
    /\ (AttemptedGuarded(RestrictFileAccess) /\ ~permissions.file_access)
          => (sbOp.result[1].success <=> sbOp.action.attempt.path = "inside")
    /\ (AttemptedGuarded(DisableSubprocessCreation) /\ ~allowSubprocesses)
          => ~sbOp.result[1].success

\* ---- WebSocket and IPC connections ----

\* C13: on an authenticated WebSocket or IPC connection the responses written
\* correspond one to one, in order, to the requests read: every request (valid,
\* malformed JSON, JSON that is not an object, missing a required field, unknown
\* action, backend failure) gets exactly one response, and the connection stays
\* usable for the next request.
C13_OneResponsePerRequest ==
    conn.authenticated
        => /\ Len(conn.writes) = Len(conn.reads)
           /\ conn.ended \in {"none", "client"}
           /\ conn.ended = "none" => conn.state = "open"

\* C13 for the requests whose handling does not raise (not the claim): each is
\* answered once, in order, and the connection stays open.
AnsweredUnlessHandlerRaises ==
    (conn.authenticated /\ \A i \in 1..Len(conn.reads) : ~HandlerRaises(conn.reads[i]))
        => /\ Len(conn.writes) = Len(conn.reads)
           /\ \A i \in 1..Len(conn.reads) :
                 <<conn.writes[i]>> = Response(conn.transport, conn.reads[i])
           /\ conn.ended \in {"none", "client"}

\* C14: the IPC transport accepts the same action set as WebSocket: each of
\* ping, status, query and plan sent on an authenticated IPC connection is
\* handled as on WebSocket and none is answered with unsupported_action.
C14_IpcAcceptsWsActions ==
    (conn.authenticated /\ conn.transport = "ipc")
        => \A i \in 1..Len(conn.reads) :
              conn.reads[i] \in {"ping", "status", "query", "plan"}
                 => /\ i <= Len(conn.writes)
                    /\ conn.writes[i] # "error: unsupported_action"
                    /\ <<conn.writes[i]>> = WsResponse(conn.reads[i])

\* C14 without ping (not the claim): status, query and plan are handled on IPC
\* as on WebSocket.
IpcHandlesStatusQueryPlan ==
    (conn.authenticated /\ conn.transport = "ipc")
        => \A i \in 1..Len(conn.reads) :
              conn.reads[i] \in {"status", "query", "plan"}
                 => /\ i <= Len(conn.writes)
                    /\ <<conn.writes[i]>> = WsResponse(conn.reads[i])

\* ---- bootstrap token ----

\* No ensure_bootstrap_token call is in progress and at least one has returned.
EnsureReturned ==
    /\ \A c \in Callers : ensurePc[c] = "idle"
    /\ \E c \in Callers : ensureTok[c] # <<>>

\* The tokens the ensure_bootstrap_token calls returned.
EnsureResults == UNION {{ensureTok[c][i] : i \in 1..Len(ensureTok[c])} : c \in Callers}

\* The stored tokens issued to the subject "bootstrap".
BootstrapRecords == {t \in DOMAIN records : records[t].subject = "bootstrap"}

\* All calls returned one token, and it is the only bootstrap token of the
\* in-memory map and of the store: admin, without expiry.
OneBootstrapToken ==
    /\ Cardinality(EnsureResults) = 1
    /\ BootstrapRecords = EnsureResults
    /\ \A t \in BootstrapRecords : records[t].admin /\ records[t].expires_at = None
    /\ store = Save(records)

\* C15: on one Auth Manager any number of ensure_bootstrap() calls, sequential
\* or concurrent from several threads, all return the same token, and together
\* they leave exactly one bootstrap token (admin, no expiry) in the in-memory
\* map and the store.
C15_EnsureBootstrapIdempotent == EnsureReturned => OneBootstrapToken

\* C15 for calls that never overlap (not the claim): sequential calls return
\* one token and leave one bootstrap token.
SequentialEnsureIdempotent == (EnsureReturned /\ ~ensureOverlap) => OneBootstrapToken

\* The step was a rotate_bootstrap() call that returned a token.
Rotated == authOp'.op = "rotate_bootstrap" /\ authOp'.error = "none"

\* What holds right after rotate_bootstrap() returned r = authOp'.token, with old
\* the bootstrap token before the call.
RotateContract ==
    LET old == bootstrapToken
        r == authOp'.token
        am == [records |-> records', store |-> store', minted |-> minted',
               bootstrap |-> bootstrapToken']
    IN  /\ r # old
        /\ r \in DOMAIN records'
        /\ records'[r].admin
        /\ records'[r].expires_at = None
        /\ "*" \in records'[r].scopes
        /\ \A now \in {authNow', MaxAuthNow} :
              /\ \A scope \in ScopeArgs : Validate(records', old, scope, now) = <<>>
              /\ \A scope \in ScopeArgs \cup {<<"stream">>, <<"admin">>} :
                    Validate(records', r, scope, now) = <<records'[r]>>
              /\ EnsureBootstrapToken(am, now) = am
        /\ bootstrapToken' = r

\* C16: when a bootstrap token old exists, rotate_bootstrap() returns a new
\* admin, non-expiring, wildcard-scope token r # old; afterwards validate(old)
\* is none, validate(r, s) = r for every scope s, and ensure_bootstrap()
\* returns r.
C16_RotateReplacesBootstrap == [][Rotated => RotateContract]_vars

C16_Witness ==
    /\ authOp.op = "rotate_bootstrap"
    /\ authOp.error = "none"
    /\ bootstrapToken = authOp.token
    /\ authCfg.bootstrap_token # ""
    /\ authCfg.bootstrap_token \notin DOMAIN records
    /\ authOp.token \in DOMAIN records

\* ---- mint, validate, revoke ----

\* The values mint_token has returned so far.
MintedTokens == {TokenValue(n) : n \in 1..minted}

\* C17, mint: the minted token is stored; a ttl of 0 or less leaves it without
\* expiry, so that it is not expired at any later time.
MintContract ==
    authOp'.op = "mint"
        => LET t == authOp'.token
           IN  /\ Validate(records', t, <<>>, authNow') = <<records'[t]>>
               /\ (authOp'.ttl # None /\ authOp'.ttl <= 0)
                     => /\ records'[t].expires_at = None
                        /\ Validate(records', t, <<>>, MaxAuthNow + RateWindow)
                              = <<records'[t]>>

\* C17, validate: validate(t.value) returns t as long as t is neither revoked
\* nor expired, and none afterwards.
ValidateMinted ==
    (authOp.op = "validate" /\ authOp.scope = <<>> /\ authOp.token \in MintedTokens)
        => authOp.result =
              IF /\ authOp.token \in DOMAIN records
                 /\ \/ records[authOp.token].expires_at = None
                    \/ authOp.now < records[authOp.token].expires_at
              THEN <<records[authOp.token]>> ELSE <<>>

\* C17, revoke: revoke returns true exactly when the value was stored (false
\* for an unknown or already revoked one), and the value is not stored after it.
RevokeContract ==
    authOp'.op = "revoke"
        => /\ authOp'.existed <=> authOp'.token \in DOMAIN records
           /\ authOp'.token \notin DOMAIN records'

\* C17, forever: a revoked value never comes back.
RevokedStaysRevoked ==
    \A t \in MintedTokens : t \notin DOMAIN records => t \notin DOMAIN records'

\* C17: after mint(...) returns t, validate(t.value) returns t until t is
\* revoked or expires; revoke(t.value) returns true the first time and false
\* for an unknown or already revoked value, and after it validate(t.value)
\* returns none forever; a ttl of 0 or less yields a token that never expires.
C17_MintValidateRevoke ==
    /\ []ValidateMinted
    /\ [][MintContract /\ RevokeContract /\ RevokedStaysRevoked]_vars

\* C17 witness: validate of a minted and then revoked token returned none.
C17_Witness ==
    /\ authOp.op = "validate"
    /\ authOp.scope = <<>>
    /\ authOp.token \in MintedTokens
    /\ authOp.token \notin DOMAIN records
    /\ authOp.result = <<>>

\* ---- RuntimePool: names, ports, spawn failures ----

\* No two workers of the pool share a name.
UniqueNames ==
    \A i, j \in 1..Len(processes) :
       i # j => processes[i].name # processes[j].name

\* No two live workers of the pool share a port.
UniqueLivePorts ==
    \A i, j \in 1..Len(processes) :
       (i # j /\ processes[i].alive /\ processes[j].alive)
          => processes[i].port # processes[j].port

\* C18: after any sequence of spawn(name?, port?), remove, scale_to, heartbeat,
\* stop and worker crashes, no two workers in the pool share a name and no two
\* live workers share a port.
C18_UniqueNamesAndPorts == UniqueNames /\ UniqueLivePorts

\* The pool already holds max workers (max > 0).
AtCapacity == 0 < poolCfg.max_runtimes /\ poolCfg.max_runtimes <= Len(processes)

\* The call was spawn(name=n) with n the name of a worker in the pool.
SpawnedExistingName == poolOp'.op = "spawn" /\ poolOp'.name \in Names(processes)

\* The failed call started no worker and left the pool and the Registry as they were.
PoolUntouched ==
    /\ processes' = processes
    /\ desired' = desired
    /\ portCursor' = portCursor
    /\ registry' = registry

\* spawn on a pool at capacity fails with capacity_exceeded and changes nothing
CapacityExceededContract ==
    (poolOp'.op = "spawn" /\ AtCapacity)
        => (poolOp'.err = "capacity_exceeded" /\ PoolUntouched)

\* C19: spawn() on a pool that already holds max workers (max > 0) fails with
\* capacity_exceeded, and spawn(name=n) with n already in the pool fails with
\* name_conflict; in both cases no process is started and the pool's workers,
\* desired count, port cursor and the Registry are left unchanged.
C19_SpawnFailuresAsStated ==
    [][/\ CapacityExceededContract
       /\ SpawnedExistingName => (poolOp'.err = "name_conflict" /\ PoolUntouched)]_vars

\* C19 amended: as C19, with name_conflict reported for an existing name only
\* when the pool is below its capacity (the capacity test comes first).
C19_SpawnFailuresCapacityFirst ==
    [][/\ CapacityExceededContract
       /\ (SpawnedExistingName /\ ~AtCapacity)
             => (poolOp'.err = "name_conflict" /\ PoolUntouched)]_vars

\* C19 witness: both failures happened, on a pool that held a worker.
C19_Witness ==
    /\ poolOp.op = "spawn"
    /\ poolOp.err = "name_conflict"
    /\ poolOp.name \in Names(processes)
    /\ Len(processes) = 1
    /\ poolCfg.max_runtimes = MaxMaxCfg

\* ---- Supervisor health endpoint ----

\* The health endpoint answered 200 exactly when the status it read was ready,
\* and 503 for every other status.
ProbeMatchesStatus ==
    IsHealthPath(probe.path)
        => /\ probe.code \in {200, 503}
           /\ probe.code = 200 <=> probe.status = "ready"

\* status = ready comes with running = true and the pid of the launched child.
ReadyMeansRunning ==
    health.status = "ready"
        => /\ health.running
           /\ child.pid # 0
           /\ health.child_pid = child.pid
           /\ child.pid = launches

\* C20: the supervisor health endpoint answers 200 iff the current status is
\* ready and 503 for every other status; and in every reachable state
\* status = ready implies running = true and child_pid is the pid of the
\* launched child.
C20_HealthEndpoint == ProbeMatchesStatus /\ ReadyMeansRunning

\* C20 witness: the endpoint answered 200 for a relaunched child and, later, 503.
C20_Witness ==
    /\ probe.code = 503
    /\ probe.status = "stopping"
    /\ health.status = "ready"
    /\ health.running
    /\ health.child_pid = child.pid
    /\ launches = 2

\* ---- Supervisor state file ----

\* No thread is inside _write_state.
NoWriteInProgress == \A t \in Writers : pending[t] = NoWrite

\* What a reader of the state file gets.
ReaderSees == LoadSupervisorState(stateFile)

\* C21: after every status transition the state file holds the full state whose
\* health.status equals the supervisor's current status, and the write is
\* atomic: a reader that reads the file at any moment, including while run()
\* and a stop() caller both write, sees a complete state document, never an
\* empty or a partial one.
C21_StateFileAtomic ==
    stateFile # NoFile
        => /\ ReaderSees # EmptyState
           /\ NoWriteInProgress => ReaderSees.health.status = health.status

\* With no stop() caller, and outside the run thread's write_text, the state
\* file is the document of the current health payload.
StateFileOfRunAlone ==
    (stopPc = "idle" /\ NoWriteInProgress /\ stateFile # NoFile)
        => /\ ReaderSees # EmptyState
           /\ ReaderSees.health = health
           /\ ReaderSees.restart_count = restartCount

\* ---- RuntimeGateway registry ----

\* The lower-cased (protocol, name) pairs callers can ask for.
RegistryKeys == {<<Lower(protocol), name>> : protocol \in ProtocolArgs, name \in EndpointNames}

\* The endpoint most recently registered under key in the calls of log and not
\* unregistered since, as a set of at most one endpoint.
RECURSIVE LatestRegistered(_, _)
LatestRegistered(log, key) ==
    IF log = <<>> THEN {}
    ELSE LET call == log[Len(log)]
             earlier == SubSeq(log, 1, Len(log) - 1)
         IN  IF call.op = "register" /\ <<call.endpoint.protocol, call.endpoint.name>> = key
             THEN {call.endpoint}
             ELSE IF call.op = "unregister" /\ <<Lower(call.protocol), call.name>> = key
             THEN {}
             ELSE LatestRegistered(earlier, key)

\* No two listed endpoints have the same (protocol, name).
ListsNoKeyTwice(listing) ==
    /\ \A e \in DOMAIN listing : listing[e] = 1
    /\ \A e1, e2 \in DOMAIN listing :
          (e1.protocol = e2.protocol /\ e1.name = e2.name) => e1 = e2

\* C22: for every (protocol, name), find returns the endpoint most recently
\* registered under that key and not unregistered since, and none otherwise;
\* endpoints() and snapshot() never list two endpoints with the same
\* (protocol, name).
C22_FindLatestAndNoDuplicates ==
    /\ \A key \in RegistryKeys :
          Find(registry, key[1], key[2]) = LatestRegistered(regLog, key)
    /\ regOp.op = "find"
          => regOp.result = LatestRegistered(regLog, <<Lower(regOp.protocol), regOp.name>>)
    /\ regOp.op = "endpoints" => ListsNoKeyTwice(regOp.result)
    /\ regOp.op = "snapshot"
          => \A proto \in Protocols : ListsNoKeyTwice(regOp.result[proto])

\* C22 witness: after MaxRegistryOps calls that registered one key twice, with
\* different addresses, and left one endpoint in the registry, find, asked with
\* an upper-case protocol, returned the endpoint registered later.
C22_Witness ==
    /\ Len(regLog) = MaxRegistryOps
    /\ regOp.op = "find"
    /\ regOp.protocol = "HTTP"
    /\ \E e \in regOp.result : \E i \in 1..Len(regLog) :
          /\ regLog[i].op = "register"
          /\ regLog[i].endpoint.name = e.name
          /\ regLog[i].endpoint.protocol = e.protocol
          /\ regLog[i].endpoint.address # e.address
    /\ Cardinality(DOMAIN registry) = 1

\* ---- Copy-on-read ----

\* Every registry read returns the same from both registries.
SameRegistryReads(reg1, reg2) ==
    /\ SnapshotOf(reg1) = SnapshotOf(reg2)
    /\ \A protocol \in ProtocolArgs \cup {"None"} :
          EndpointsOf(reg1, protocol) = EndpointsOf(reg2, protocol)
    /\ \A protocol \in ProtocolArgs, name \in EndpointNames :
          FindEndpoint(reg1, protocol, name) = FindEndpoint(reg2, protocol, name)

\* Every Auth Manager read returns the same from both record maps.
SameAuthReads(recs1, recs2) ==
    /\ ListTokens(recs1) = ListTokens(recs2)
    /\ \A token \in PresentedTokens, scope \in ScopeArgs :
          Validate(recs1, token, scope, authNow) = Validate(recs2, token, scope, authNow)

\* C23: a value returned by a Registry read (snapshot, endpoints, find) or an
\* Auth Manager read (validate, list_tokens) is independent of internal state:
\* mutating the returned structure, an endpoint's metadata map or a token
\* record's fields included, never changes what any later read returns.
C23_ReadsAreCopies ==
    [][/\ regOp'.op = "mutate" => SameRegistryReads(registry, registry')
       /\ authOp'.op = "mutate" => SameAuthReads(records, records')]_vars

\* Changing what snapshot() returned changes no later registry read.
SnapshotIsCopy ==
    [][(regOp.op = "snapshot" /\ regOp'.op = "mutate")
          => SameRegistryReads(registry, registry')]_vars

\* ---- Supervisor: the restarting status ----

\* The step enters health status restarting.
EntersRestarting == health'.status = "restarting" /\ health.status # "restarting"

\* C24: health status restarting is entered only when the restart budget
\* permits another launch: absent a stop request every restarting state is
\* followed by ready, and a non-zero exit that exhausts the budget goes from
\* failed to stopped without passing through restarting.
C24_RestartingOnlyWithBudget ==
    [][EntersRestarting => ShouldRestart(restartHistory')]_vars

\* Restarting is entered from failed, by the run thread registering a restart
\* with no stop requested, whatever the budget.
RestartingAfterAnyFailure ==
    [][EntersRestarting
          => /\ health.status \in {"failed", "stopping"}
             /\ exitCode # 0
             /\ ~stopEvent
             /\ restartCount' = restartCount + 1]_vars

\* ---- Supervisor: the state left when run() and stop() have returned ----

\* run() has returned; stop() has returned.
RunReturned == supPc = "done" /\ pending.run = NoWrite
StopReturned == stopPc = "done" /\ pending.stop = NoWrite

\* The payload shows a supervisor at rest.
AtRest(payload) ==
    /\ payload.status \in {"stopped", "failed"}
    /\ ~payload.running
    /\ payload.child_pid = None

\* C25: for every interleaving of stop() with run(), once both have returned
\* the health payload and the persisted state file show health.status in
\* {stopped, failed}, never stopping, ready or restarting, with running = false
\* and child_pid = null.
C25_AtRestAfterStopAndRun ==
    (RunReturned /\ StopReturned)
        => /\ AtRest(health)
           /\ ReaderSees # EmptyState
           /\ AtRest(ReaderSees.health)
           /\ ~ReaderSees.running
           /\ ReaderSees.child_pid = None

\* When stop() has returned before run() begins its teardown, both show stopped.
StoppedWhenStopReturnsFirst ==
    [][(supPc = "teardown" /\ StopReturned /\ supPc' = "done")
          => /\ health'.status = "stopped"
             /\ ~health'.running
             /\ health'.child_pid = None
             /\ pending'.run.health = health']_vars

\* ---- Supervisor: the end of run() without a stop request ----

RECURSIVE NonZero(_)
NonZero(codes) ==
    IF codes = <<>> THEN 0
    ELSE (IF Head(codes) # 0 THEN 1 ELSE 0) + NonZero(Tail(codes))

\* run() has returned and stop() was never called.
EndedUnstopped == RunReturned /\ stopPc = "idle"

\* The return value and the final state file, but for the restart budget.
FinalStateOfRun ==
    EndedUnstopped
        => /\ exits # <<>>
           /\ supRet = exits[Len(exits)]
           /\ \A i \in 1..(Len(exits) - 1) : exits[i] # 0
           /\ ReaderSees # EmptyState
           /\ ReaderSees.last_exit_code = supRet
           /\ ~ReaderSees.running
           /\ ReaderSees.child_pid = None
           /\ ReaderSees.restart_count = NonZero(exits)

\* An always-failing child that exhausted the budget leaves restart_count = max_restarts.
ExhaustedBudgetCount ==
    (EndedUnstopped /\ supRet # 0) => ReaderSees.restart_count = supCfg.max_restarts

\* C26: when run() ends without a stop request it returns the exit code of the
\* last child launch (0 if that child exited cleanly, which ends supervision
\* without a restart); the final state file has last_exit_code equal to that
\* code, running = false, child_pid = null, and restart_count equal to the
\* number of non-zero child exits observed, so restart_count = max_restarts
\* when an always-failing child exhausts the budget.
C26_FinalStateAfterRun == FinalStateOfRun /\ ExhaustedBudgetCount

\* ---- Supervisor: the backoff delay ----

\* The restarts registered within window_seconds of the latest one, itself included.
RestartsInWindow ==
    LET latest == restartTimes[Len(restartTimes)]
        window == Max(0, supCfg.window_seconds)
    IN  Cardinality({i \in 1..Len(restartTimes) : restartTimes[i] >= latest - window})

\* run() decides to launch again; the time it waits before it does.
DecidesRestart == supPc = "decide" /\ supPc' \in {"backoff", "loop"}
DelayWaited == IF supPc' = "backoff" THEN backoffUntil' - supClock ELSE 0

\* C27: the delay the supervisor waits before the N-th restart inside the
\* current window equals min(max_backoff_seconds, backoff_seconds * 2^(N-1)),
\* and is 0 when backoff_seconds = 0.
C27_BackoffDelay ==
    [][DecidesRestart
          => /\ RestartsInWindow >= 1
             /\ DelayWaited = IF supCfg.backoff_seconds = 0 THEN 0
                              ELSE Min(supCfg.max_backoff_seconds,
                                       supCfg.backoff_seconds * (2 ^ (RestartsInWindow - 1)))]_vars

\* C27 witness: the third restart inside the window is waited for with the
\* delay capped at max_backoff_seconds, after a second one waited for twice
\* the base delay.
C27_Witness ==
    /\ supPc = "backoff"
    /\ Len(restartTimes) = 3
    /\ RestartsInWindow = 3
    /\ supCfg.backoff_seconds = 1
    /\ supCfg.max_backoff_seconds = MaxBackoffWide
    /\ backoffUntil - restartTimes[3] = MaxBackoffWide
    /\ restartTimes[3] - restartTimes[2] = 2

\* ---- Supervisor: the restart budget and its window ----

\* run() decides what follows a non-zero exit: it gives up, or launches again.
DecidesAfterFailure == supPc = "decide" /\ exitCode # 0 /\ ~stopEvent /\ supPc' # supPc
GivesUp == supPc' = "teardown"

\* C28: only restarts whose timestamp lies within the last window_seconds
\* count against the budget: a child whose non-zero exits number fewer than
\* max_restarts in every window is re-launched after every failure and
\* supervision never gives up, while max_restarts = 0 means the child is
\* never re-launched.
C28_BudgetCountsWindowOnly ==
    [][DecidesAfterFailure
          => /\ RestartsInWindow < supCfg.max_restarts => ~GivesUp
             /\ GivesUp => (supCfg.max_restarts = 0
                              \/ RestartsInWindow >= supCfg.max_restarts)
             /\ supCfg.max_restarts = 0 => (GivesUp /\ launches = 1)]_vars

\* C28 witness: the child is launched again after as many failures as
\* max_restarts, the first of which has left the window.
C28_Witness ==
    /\ supPc = "ready"
    /\ supCfg.max_restarts = MaxRestartsCfg
    /\ supCfg.window_seconds = WindowCfg
    /\ Len(restartTimes) = MaxRestartsCfg
    /\ RestartsInWindow < MaxRestartsCfg
    /\ launches = MaxRestartsCfg + 1

\* ---- Supervisor hooks ----

\* The number of calls of hook among the first n calls.
HookCalls(hook, n) == Cardinality({i \in 1..n : hookLog[i].hook = hook})

\* The calls of on_child_start and on_child_exit, in order.
IsLaunchHook(call) == call.hook # "on_restart"
LaunchHooks == SelectSeq(hookLog, IsLaunchHook)

\* on_child_start and on_child_exit alternate, one exit call per child that
\* exited, with its exit code.
StartExitAlternate ==
    /\ \A i \in 1..Len(LaunchHooks) :
          LaunchHooks[i].hook = IF i % 2 = 1 THEN "on_child_start" ELSE "on_child_exit"
    /\ HookCalls("on_child_exit", Len(hookLog)) = Len(exits)
    /\ \A i \in 1..Len(exits) : LaunchHooks[2 * i].a = exits[i]

\* The j-th on_child_start has the pid of the j-th launch and k = j - 1, the
\* number of restarts registered before it.
StartArguments ==
    \A i \in 1..Len(hookLog) :
        hookLog[i].hook = "on_child_start"
            => /\ hookLog[i].a = HookCalls("on_child_start", i)
               /\ hookLog[i].b = HookCalls("on_child_start", i) - 1
               /\ hookLog[i].b = HookCalls("on_restart", i)

\* The n-th on_restart has argument n and comes right after the on_child_exit
\* of a non-zero exit; a non-zero exit is followed by on_restart before any
\* other hook, and at once when no stop was requested.
RestartCalls ==
    /\ \A i \in 1..Len(hookLog) :
          hookLog[i].hook = "on_restart"
              => /\ hookLog[i].a = HookCalls("on_restart", i)
                 /\ i > 1
                 /\ hookLog[i - 1].hook = "on_child_exit"
                 /\ hookLog[i - 1].a # 0
    /\ \A i \in 1..(Len(hookLog) - 1) :
          (hookLog[i].hook = "on_child_exit" /\ hookLog[i].a # 0)
              => hookLog[i + 1].hook = "on_restart"
    /\ (/\ hookLog # <<>>
        /\ hookLog[Len(hookLog)].hook = "on_child_exit"
        /\ hookLog[Len(hookLog)].a # 0
        /\ supPc # "exited")
          => stopEvent

\* C29: supervisor hooks fire in launch order and strictly alternate start,
\* exit: each launch calls on_child_start(pid, k) with k = the number of
\* restarts registered so far (0 for the first launch, then 1, 2, ...),
\* followed by exactly one on_child_exit(code, .) when that child exits;
\* on_restart(n) is called with n = 1, 2, ... after each non-zero exit that is
\* not part of a stop, before the next on_child_start.
C29_HooksInOrder == StartExitAlternate /\ StartArguments /\ RestartCalls

\* C29 witness: three launches, the first two ended by a non-zero exit and
\* followed by on_restart(1) and on_restart(2), the third ended by the stop signal.
C29_Witness ==
    /\ Len(hookLog) = 8
    /\ hookLog[3] = [hook |-> "on_restart", a |-> 1, b |-> None]
    /\ hookLog[6] = [hook |-> "on_restart", a |-> 2, b |-> None]
    /\ hookLog[7] = [hook |-> "on_child_start", a |-> 3, b |-> 2]
    /\ hookLog[8] = [hook |-> "on_child_exit", a |-> SigTermCode, b |-> 2]
    /\ supPc = "done"

\* ---- The result message of the sandbox child ----

\* The status of the message the child of the last execute put on the queue.
MessageStatus ==
    IF \/ sbOp.action.target = "returns"
       \/ /\ sbOp.action.target = "calls"
          /\ ~GuardRaises(sbOp.guards, sbOp.action.attempt)
    THEN "ok" ELSE "error"

\* The last execute returned a result built from the child's message.
BuiltFromMessage ==
    /\ ~sbOp.result[1].timed_out
    /\ sbOp.result[1].error # "Sandbox process exited without result"
    /\ sbOp.result[1].success <=> MessageStatus = "ok"

\* C30: if the child puts its result message on the result channel before
\* wall_time_seconds elapses, execute returns a result built from that message
\* (success according to its status, timed_out = false) whatever the size of
\* the message; such a run is never reported as timed out or as having exited
\* without a result.
C30_MessageAlwaysReturned ==
    (Executed /\ PutsMessage(sbOp.action.target)) => BuiltFromMessage

\* C30 for a message that fits the buffer of the queue's pipe (not the claim:
\* what the code does guarantee).
FittingMessageReturned ==
    (Executed /\ PutsMessage(sbOp.action.target) /\ sbOp.action.message = "fits")
        => BuiltFromMessage

\* A message that exceeds the buffer is reported as a timeout and the child,
\* still writing it, is killed.
ExceedingMessageTimesOut ==
    (Executed /\ PutsMessage(sbOp.action.target) /\ sbOp.action.message = "exceeds")
        => /\ sbOp.result[1].timed_out
           /\ sbOp.child = "killed"

\* ---- execute() while the permissions are updated ----

\* What the execute in progress has used comes from the permission set perms:
\* the set it checked the required permissions against (if it requires any),
\* the allow_network flag and the allow_files flag of its payload.
UsedSnapshot(perms) ==
    /\ execCall.action.required_permissions # <<>> => execCall.checked = perms
    /\ execCall.allow_network = perms.network_access
    /\ execCall.allow_files = perms.file_access

\* The execute in progress has started its child.
Spawned == execCall.pc = "returned"

\* C31: each execute call uses one consistent permissions snapshot: when
\* update_permissions runs concurrently with execute, the permission check, the
\* allow_files flag and the allow_network flag used for that call all come from
\* the same published permission set (all from the old one or all from the new
\* one), and a later update never affects a child already spawned.
C31_OnePermissionSnapshot ==
    /\ Spawned => \E i \in 1..Len(published) : UsedSnapshot(published[i])
    /\ Spawned => /\ sbOp.op = "execute"
                  /\ sbOp.allow_network = execCall.allow_network
                  /\ sbOp.allow_files = execCall.allow_files

\* C31 for an execute that no update_permissions call overlaps (not the claim:
\* what the code does guarantee).
SnapshotWithoutOverlap ==
    (Spawned /\ Len(published) = 1) => UsedSnapshot(published[1])

\* The flags handed to a child are those of its payload whatever is published
\* afterwards.
SpawnedChildKeepsPayload ==
    [][Spawned => (Spawned' /\ sbOp' = sbOp /\ execCall' = execCall)]_vars

\* ---- The guards of the sandbox child ----

\* The guards that the payload of the last execute asks for.
ConfiguredGuards ==
    ApplyLimits(sbOp.allow_network, sbOp.allow_files, sbOp.allow_subprocesses)

\* C32: the target is never invoked unless the configured guards are in place:
\* whenever the child runs the target with allow_network = false, file access
\* disabled or allow_subprocesses = false, the corresponding guard was
\* installed beforehand, even when an earlier step of applying limits (working
\* directory, environment merge, a resource limit) fails.
C32_GuardsBeforeTarget ==
    (Executed /\ TargetInvoked(sbOp.action.target))
        => ConfiguredGuards \subseteq sbOp.guards

\* C32 when no step raises out of _apply_limits (not the claim: what the code
\* does guarantee); a failing setrlimit or priority change is among these.
GuardsWhenLimitsApplied ==
    (Executed /\ TargetInvoked(sbOp.action.target)
              /\ ~ApplyLimitsRaises(sbOp.action.fault))
        => ConfiguredGuards \subseteq sbOp.guards

\* ---- The fields of a SandboxResult ----

\* The result of the last execute that returned one.
LastResult == sbOp.result[1]

\* C33: every SandboxResult returned by execute satisfies: success = true
\* implies timed_out = false and error = none; timed_out = true implies
\* success = false and value = none; success = false implies error is set; and
\* a child that exits without producing a message yields success = false,
\* timed_out = false with the no-result error.
C33_ResultFieldsConsistent ==
    Executed =>
        /\ LastResult.success => (~LastResult.timed_out /\ LastResult.error = "none")
        /\ LastResult.timed_out => (~LastResult.success /\ LastResult.value = "none")
        /\ ~LastResult.success => LastResult.error # "none"
        /\ sbOp.action.target = "dies"
              => LastResult = SandboxResult(FALSE, "none", FALSE,
                                            "Sandbox process exited without result")

\* C33 witness: execute returned the result of a child that exited without a
\* message.
C33_Witness ==
    /\ Executed
    /\ sbOp.action.target = "dies"
    /\ sbOp.child = "exited"
    /\ ~LastResult.success
    /\ ~LastResult.timed_out
    /\ LastResult.error = "Sandbox process exited without result"

\* ---- Automatic spawns and generated names ----

\* The pool call that ran last spawned workers on its own: scale_to or heartbeat.
AutomaticSpawns(call) == call.op \in {"scale_to", "heartbeat"}

\* C34: automatic spawns performed by scale_to() and heartbeat() never fail
\* with name_conflict: for any sequence of scale_to, heartbeat, remove and
\* worker crashes/restarts (including workers with equal started_at), the
\* generated name runtime-<len(workers)+1> is not already in the pool, so the
\* pool can always grow back to its desired size.
C34_AutoSpawnNeverConflicts ==
    AutomaticSpawns(poolOp) => poolOp.err # "name_conflict"

\* The workers are named runtime-1 .. runtime-n, n the size of the pool.
DenseNames == Names(processes) = {RuntimeName(i) : i \in 1..Len(processes)}

\* C34 for a call that finds the names runtime-1 .. runtime-n (not the claim:
\* what the code does guarantee).
NoConflictFromDenseNames ==
    [][(DenseNames /\ AutomaticSpawns(poolOp'))
          => poolOp'.err # "name_conflict"]_vars

\* ---- The pool after DaemonHandle.stop() ----

\* RuntimePool.stop(), as called by DaemonHandle.stop(), has returned.
PoolStopReturned == daemonStopPc = "returned"

\* The pool holds no worker and no worker is registered.
PoolEmpty == processes = <<>> /\ registry = <<>>

\* C35: once RuntimePool.stop() (as called by DaemonHandle.stop()) has
\* returned, the pool holds no workers and no worker process is alive or
\* registered afterwards, for every interleaving with a heartbeat() issued by
\* the monitor thread, including a heartbeat that was already due when stop
\* began or whose join timed out.
C35_EmptyAfterStop == PoolStopReturned => PoolEmpty

\* C35 when no heartbeat ran after stop() took the workers out of the pool (not
\* the claim: what the code does guarantee).
EmptyWhenStopRanLast ==
    (PoolStopReturned /\ poolOp.op = "stop") => PoolEmpty

\* ---- What the pool does while it holds its mutex ----

\* C36: the pool mutex is never held while a worker process is being
\* terminated or waited for, nor while sleeping for restart_backoff: during
\* scale-down and crash-restart inside heartbeat()/scale_to(), other pool
\* calls (snapshot, active_count, spawn, remove) are not blocked for the
\* duration of a kill or a backoff sleep.
C36_LockFreeOfBlockingCalls == poolOp.held = {}

\* C36 for remove() (not the claim: what the code does guarantee), and the
\* calls that do block under the lock: a scale_to that shrinks and a heartbeat
\* that shrinks or restarts.
BlockingUnderLockOnlyInScaleAndHeartbeat ==
    /\ poolOp.op = "remove" => poolOp.held = {}
    /\ poolOp.held # {} => AutomaticSpawns(poolOp)
    /\ "sleep" \in poolOp.held => poolOp.op = "heartbeat"

\* ---- What the registry holds ----

\* The endpoints the gateway server registers for its transports.
GatewayKeys == {<<"http", "gateway-http">>, <<"ws", "gateway-ws">>,
                <<"ipc", "gateway-ipc">>}

\* GatewayServer.stop() has returned after a start().
ServerStopped == ~server.running /\ serverLog # <<>>

\* Every other endpoint is that of a worker the pool holds.
WorkerEndpointsAreWorkers ==
    \A key \in DOMAIN registry \ GatewayKeys :
        key[1] = "http" /\ key[2] \in Names(processes)

\* C37: every endpoint in the Registry refers to something currently running:
\* after GatewayServer.stop() returns, gateway-http, gateway-ws and gateway-ipc
\* are no longer registered, and after a worker is removed by remove(),
\* scale-down or pool stop() its endpoint is no longer registered.
C37_RegistryHoldsRunningOnly ==
    /\ ServerStopped => DOMAIN registry \cap GatewayKeys = {}
    /\ WorkerEndpointsAreWorkers

\* ---- The order of GatewayServer.stop() ----

\* What stop() did, after the start() before it: the part of the log that
\* follows "stop".
RECURSIVE AfterStop(_)
AfterStop(log) ==
    IF log = <<>> THEN <<>>
    ELSE IF Head(log) = "stop" THEN Tail(log)
    ELSE AfterStop(Tail(log))

\* The position of a step in what stop() did; 0 if it did not happen.
RECURSIVE StepAt(_, _, _)
StepAt(steps, step, i) ==
    IF i > Len(steps) THEN 0
    ELSE IF steps[i] = step THEN i
    ELSE StepAt(steps, step, i + 1)

\* step a happened before step b when both happened.
Before(steps, a, b) ==
    (StepAt(steps, a, 1) # 0 /\ StepAt(steps, b, 1) # 0)
        => StepAt(steps, a, 1) < StepAt(steps, b, 1)

\* C40: GatewayServer.stop() closes the transports in the reverse of their
\* start order (IPC first, then WebSocket, then HTTP), then joins the loop
\* thread, and when it returns the IPC socket file no longer exists.
C40_StopInReverseOrder ==
    ServerStopped =>
        LET steps == AfterStop(serverLog)
        IN  /\ Before(steps, "close_ipc", "close_ws")
            /\ Before(steps, "close_ws", "close_http")
            /\ Before(steps, "close_http", "join_loop")
            /\ StepAt(steps, "join_loop", 1) # 0
            /\ ~server.ipc_file

\* C40 in the order of the code (not the claim: what the code does guarantee):
\* HTTP first, then WebSocket, then IPC, then the loop thread is joined, and
\* the socket file is gone.
StopInStartOrder ==
    ServerStopped =>
        LET steps == AfterStop(serverLog)
        IN  /\ Before(steps, "close_http", "close_ws")
            /\ Before(steps, "close_ws", "close_ipc")
            /\ Before(steps, "close_ipc", "join_loop")
            /\ StepAt(steps, "close_http", 1) # 0
            /\ StepAt(steps, "close_ws", 1) # 0
            /\ StepAt(steps, "join_loop", 1) # 0
            /\ ~server.ipc_file

\* Operations a session serves: the requests answered with a result.
ServedRequests == {"status", "query", "plan"}

\* The operations served so far on the connection.
ServedOperations ==
    Cardinality({i \in 1..Len(conn.reads) : conn.reads[i] \in ServedRequests})

\* C38: the operations served for one token in one window never exceed the
\* token's rate_limit_per_minute, the messages of an open WebSocket or IPC
\* session included.  The clock stands still here, so one session lies in one
\* window.
C38_RateLimitAcrossTransports ==
    (conn.authenticated /\ authOp.op = "connect")
        => ServedOperations <= records[authOp.token].rate_limit_per_minute

\* What holds instead: record_usage is called for the handshake only; a message
\* on the open session leaves the token's window count and the usage history
\* as they were.
OnlyHandshakeCounted ==
    [][conn'.reads # conn.reads /\ conn'.reads # <<>>
          => records' = records /\ usageLog' = usageLog]_vars

\* The bootstrap tokens a store holds.
BootstrapTokens(payload) == {t \in DOMAIN payload : payload[t].subject = "bootstrap"}

\* C39: when the daemon starts over a store that already holds a bootstrap token,
\* ensure_bootstrap_token returns a token of that store and the store's set of
\* bootstrap tokens does not grow.
C39_RestartKeepsBootstrap ==
    [][(authOp'.op = "start_daemon" /\ BootstrapTokens(store) # {})
          => /\ authOp'.token \in BootstrapTokens(store)
             /\ BootstrapTokens(store') = BootstrapTokens(store)]_vars

\* What holds instead: a bootstrap token given in the configuration and held by
\* the store is returned, and the store is left as it was.
ConfiguredBootstrapReused ==
    [][(authOp'.op = "start_daemon" /\ authCfg.bootstrap_token \in DOMAIN store)
          => /\ authOp'.token = authCfg.bootstrap_token
             /\ store' = store]_vars

====
